---------------------------- MODULE Spec2Model ----------------------------
(***************************************************************************)
(* A model of the step-counter bot: the row parser, the validation and     *)
(* deduplication engine, the aggregators (generate_report.py,              *)
(* generate_daily_breakdown.py) and the snapshot cache of bot.py.          *)
(*                                                                         *)
(* Text is a sequence of tokens (strings): a word, a numeral, a            *)
(* punctuation mark or a blank.  Python dicts are insertion-ordered, so a  *)
(* dict is a sequence of [key, val] records with distinct keys.            *)
(***************************************************************************)
EXTENDS Integers, Sequences, FiniteSets, TLC

(***************************************************************************)
(* Bounds of the model.                                                    *)
(***************************************************************************)
MaxRows == 3       \* rows in an input of collect_valid_entries
NumHandlers == 2   \* command handler tasks that may run at once
MaxCalls == 2      \* commands dispatched in a run
MaxClock == 2      \* the last tick of the clock
CacheTtl == 2      \* --cache-ttl, in ticks
DayLen == 2        \* ticks in a day
ReportAt == 1      \* the tick of the day of the scheduled report

(***************************************************************************)
(* Text helpers: str.strip, str.lower.                                     *)
(***************************************************************************)
None == <<"<None>">>

IsSpace(tok) == tok = " "

RECURSIVE lstrip(_)
lstrip(s) == IF s # <<>> /\ IsSpace(Head(s)) THEN lstrip(Tail(s)) ELSE s

RECURSIVE rstrip(_)
rstrip(s) ==
    IF s # <<>> /\ IsSpace(s[Len(s)]) THEN rstrip(SubSeq(s, 1, Len(s) - 1)) ELSE s

strip(s) == rstrip(lstrip(s))

LowerTable ==
    ("A" :> "a") @@ ("B" :> "b") @@ ("X" :> "x") @@
    ("Alpha" :> "alpha") @@ ("Beta" :> "beta") @@
    ("Otmetka" :> "otmetka") @@ ("Nazvanie" :> "nazvanie") @@
    ("Kolichestvo" :> "kolichestvo") @@ ("Adres" :> "adres")

\* A lower() that leaves the letters as they are.
lower_keeps_case(s) == s

lower(s) ==
    [i \in 1..Len(s) |-> IF s[i] \in DOMAIN LowerTable THEN LowerTable[s[i]] ELSE s[i]]

(***************************************************************************)
(* Numerals: the value and the number of digits of a digit group.          *)
(***************************************************************************)
Numerals ==
    ("00" :> [v |-> 0, n |-> 2]) @@ ("01" :> [v |-> 1, n |-> 2]) @@
    ("02" :> [v |-> 2, n |-> 2]) @@ ("08" :> [v |-> 8, n |-> 2]) @@
    ("11" :> [v |-> 11, n |-> 2]) @@ ("12" :> [v |-> 12, n |-> 2]) @@
    ("13" :> [v |-> 13, n |-> 2]) @@
    ("16" :> [v |-> 16, n |-> 2]) @@ ("17" :> [v |-> 17, n |-> 2]) @@
    ("29" :> [v |-> 29, n |-> 2]) @@ ("30" :> [v |-> 30, n |-> 2]) @@
    ("31" :> [v |-> 31, n |-> 2]) @@
    ("5" :> [v |-> 5, n |-> 1]) @@ ("100" :> [v |-> 100, n |-> 3]) @@
    ("400" :> [v |-> 400, n |-> 3]) @@ ("999" :> [v |-> 999, n |-> 3]) @@
    ("2025" :> [v |-> 2025, n |-> 4]) @@ ("2024" :> [v |-> 2024, n |-> 4]) @@
    ("2026" :> [v |-> 2026, n |-> 4]) @@
    ("0" :> [v |-> 0, n |-> 1]) @@ ("1" :> [v |-> 1, n |-> 1]) @@
    ("2" :> [v |-> 2, n |-> 1]) @@ ("3" :> [v |-> 3, n |-> 1]) @@
    ("4" :> [v |-> 4, n |-> 1])

IsNum(tok) == tok \in DOMAIN Numerals

(***************************************************************************)
(* Calendar dates (datetime.date) and timestamps (datetime.datetime).      *)
(***************************************************************************)
IsLeap(y) == (y % 4 = 0 /\ y % 100 # 0) \/ y % 400 = 0

DaysInMonth(y, m) ==
    IF m = 2 THEN (IF IsLeap(y) THEN 29 ELSE 28)
    ELSE IF m \in {4, 6, 9, 11} THEN 30 ELSE 31

RECURSIVE DaysBeforeMonth(_, _)
DaysBeforeMonth(y, m) ==
    IF m = 1 THEN 0 ELSE DaysBeforeMonth(y, m - 1) + DaysInMonth(y, m - 1)

\* date.toordinal(): days since 0001-01-01, which is day 1.
toordinal(dt) ==
    LET y1 == dt.y - 1
    IN  y1 * 365 + (y1 \div 4) - (y1 \div 100) + (y1 \div 400)
        + DaysBeforeMonth(dt.y, dt.m) + dt.d

\* datetime.date(): the date component of a timestamp.
date(ts) == [y |-> ts.y, m |-> ts.m, d |-> ts.d]

SecondsOfDay(ts) == ts.H * 3600 + ts.M * 60 + ts.S

\* datetime.__lt__ on naive timestamps.
DatetimeLt(a, b) ==
    \/ toordinal(date(a)) < toordinal(date(b))
    \/ /\ toordinal(date(a)) = toordinal(date(b))
       /\ SecondsOfDay(a) < SecondsOfDay(b)

\* date.__gt__
DateGt(a, b) == toordinal(a) > toordinal(b)

NoDate == [y |-> 1, m |-> 1, d |-> 1]
NoDatetime == [y |-> 1, m |-> 1, d |-> 1, H |-> 0, M |-> 0, S |-> 0]


(***************************************************************************)
(* Column names of the exported form (transliterated).  COLUMN_TEAM ends   *)
(* with a blank, as in the source.                                         *)
(***************************************************************************)
COLUMN_TIMESTAMP == <<"Otmetka", " ", "vremeni">>
COLUMN_DAY == <<"Otmetka", " ", "dnya">>
COLUMN_TEAM == <<"Nazvanie", " ", "komandy", " ">>
COLUMN_STEPS == <<"Kolichestvo", " ", "shagov", " ", "za", " ", "den">>
COLUMN_EMAIL == <<"Adres", " ", "elektronnoy", " ", "pochty">>

_required_columns ==
    <<COLUMN_TIMESTAMP, COLUMN_DAY, COLUMN_TEAM, COLUMN_STEPS, COLUMN_EMAIL>>

(***************************************************************************)
(* datetime.strptime with DATE_FMT "%d.%m.%Y" and TIMESTAMP_FMT            *)
(* "%d.%m.%Y %H:%M:%S", and int(): ok is FALSE where Python raises         *)
(* ValueError.                                                             *)
(***************************************************************************)
DateTokensOk(t) ==
    /\ Len(t) = 5
    /\ IsNum(t[1]) /\ t[2] = "." /\ IsNum(t[3]) /\ t[4] = "." /\ IsNum(t[5])
    /\ Numerals[t[1]].n <= 2 /\ Numerals[t[3]].n <= 2 /\ Numerals[t[5]].n = 4
    /\ Numerals[t[5]].v >= 1
    /\ Numerals[t[3]].v \in 1..12
    /\ Numerals[t[1]].v \in 1..DaysInMonth(Numerals[t[5]].v, Numerals[t[3]].v)

TimeTokensOk(t) ==
    /\ Len(t) = 5
    /\ IsNum(t[1]) /\ t[2] = ":" /\ IsNum(t[3]) /\ t[4] = ":" /\ IsNum(t[5])
    /\ Numerals[t[1]].n <= 2 /\ Numerals[t[3]].n <= 2 /\ Numerals[t[5]].n <= 2
    /\ Numerals[t[1]].v <= 23 /\ Numerals[t[3]].v <= 59 /\ Numerals[t[5]].v <= 59

strptime_date(t) ==
    IF DateTokensOk(t)
    THEN [ok |-> TRUE,
          val |-> [y |-> Numerals[t[5]].v, m |-> Numerals[t[3]].v, d |-> Numerals[t[1]].v]]
    ELSE [ok |-> FALSE, val |-> NoDate]

strptime_timestamp(t) ==
    LET dpart == SubSeq(t, 1, 5)
        rest == SubSeq(t, 6, Len(t))
        tpart == lstrip(rest)
    IN  IF /\ Len(t) >= 7
           /\ DateTokensOk(dpart)
           /\ IsSpace(rest[1])
           /\ TimeTokensOk(tpart)
        THEN [ok |-> TRUE,
              val |-> [y |-> Numerals[dpart[5]].v, m |-> Numerals[dpart[3]].v,
                       d |-> Numerals[dpart[1]].v, H |-> Numerals[tpart[1]].v,
                       M |-> Numerals[tpart[3]].v, S |-> Numerals[tpart[5]].v]]
        ELSE [ok |-> FALSE, val |-> NoDatetime]

int(t) ==
    IF Len(t) = 1 /\ IsNum(t[1]) THEN [ok |-> TRUE, val |-> Numerals[t[1]].v]
    ELSE IF Len(t) = 2 /\ t[1] = "+" /\ IsNum(t[2])
    THEN [ok |-> TRUE, val |-> Numerals[t[2]].v]
    ELSE IF Len(t) = 2 /\ t[1] = "-" /\ IsNum(t[2])
    THEN [ok |-> TRUE, val |-> 0 - Numerals[t[2]].v]
    ELSE [ok |-> FALSE, val |-> 0]

(***************************************************************************)
(* parse_submission.  exc is "" for a parsed row, "ValidationError" where  *)
(* the function raises it (from KeyError or ValueError, or an empty team   *)
(* or email), and "AttributeError" where .strip() is applied to a cell     *)
(* that holds None, which the function does not catch.  The five fields    *)
(* are evaluated in the order of the source, and the first exception wins. *)
(***************************************************************************)
Failure(e) ==
    [exc |-> e, submitted_at |-> NoDatetime, report_date |-> NoDate,
     team |-> <<>>, steps |-> 0, email |-> <<>>]

\* row[column].strip(): the exception it raises, "" when it raises none.
CellExc(row, column) ==
    IF column \notin DOMAIN row THEN "ValidationError"
    ELSE IF row[column] = None THEN "AttributeError"
    ELSE ""

parse_submission(row) ==
    IF CellExc(row, COLUMN_TIMESTAMP) # "" THEN Failure(CellExc(row, COLUMN_TIMESTAMP))
    ELSE LET submitted_at == strptime_timestamp(strip(row[COLUMN_TIMESTAMP])) IN
    IF ~submitted_at.ok THEN Failure("ValidationError")
    ELSE IF CellExc(row, COLUMN_DAY) # "" THEN Failure(CellExc(row, COLUMN_DAY))
    ELSE LET report_date == strptime_date(strip(row[COLUMN_DAY])) IN
    IF ~report_date.ok THEN Failure("ValidationError")
    ELSE IF CellExc(row, COLUMN_TEAM) # "" THEN Failure(CellExc(row, COLUMN_TEAM))
    ELSE LET team == strip(row[COLUMN_TEAM]) IN
    IF CellExc(row, COLUMN_STEPS) # "" THEN Failure(CellExc(row, COLUMN_STEPS))
    ELSE LET steps == int(strip(row[COLUMN_STEPS])) IN
    IF ~steps.ok THEN Failure("ValidationError")
    ELSE IF CellExc(row, COLUMN_EMAIL) # "" THEN Failure(CellExc(row, COLUMN_EMAIL))
    ELSE LET email == lower(strip(row[COLUMN_EMAIL])) IN
    IF team = <<>> \/ email = <<>> THEN Failure("ValidationError")
    ELSE [exc |-> "", submitted_at |-> submitted_at.val, report_date |-> report_date.val,
          team |-> team, steps |-> steps.val, email |-> email]

(***************************************************************************)
(* is_valid: the validity window.                                          *)
(***************************************************************************)
\* A window that lets a report filed three days late through.
is_valid_off_by_one(submitted_at, report_date) ==
    LET submission_day == date(submitted_at)
        delay == toordinal(submission_day) - toordinal(report_date)
    IN  IF DateGt(report_date, submission_day) THEN FALSE
        ELSE IF delay > 3 THEN FALSE
        ELSE TRUE

is_valid(submitted_at, report_date) ==
    LET submission_day == date(submitted_at)
        delay == toordinal(submission_day) - toordinal(report_date)
    IN  IF DateGt(report_date, submission_day) THEN FALSE
        ELSE IF delay >= 3 THEN FALSE
        ELSE TRUE

(***************************************************************************)
(* Python dicts: a sequence of [key, val] records in insertion order.      *)
(***************************************************************************)
DictKeys(dct) == {dct[i].key : i \in 1..Len(dct)}

DictHas(dct, k) == \E i \in 1..Len(dct) : dct[i].key = k

DictGet(dct, k) == dct[CHOOSE i \in 1..Len(dct) : dct[i].key = k].val

\* dct[k] = v: an existing key keeps its place, a new key goes last.
DictSet(dct, k, v) ==
    IF DictHas(dct, k)
    THEN [i \in 1..Len(dct) |-> IF dct[i].key = k THEN [key |-> k, val |-> v] ELSE dct[i]]
    ELSE Append(dct, [key |-> k, val |-> v])

(***************************************************************************)
(* collect_valid_entries.  collect_row is the body of its loop for a row   *)
(* whose parse returns or raises ValidationError; a row whose parse raises *)
(* AttributeError ends the loop, and the call, with that exception.        *)
(* An entry is <<submitted_at, team, steps>> under the key                 *)
(* <<email, report_date>>.                                                 *)
(***************************************************************************)
\* A loop body in which the last submission of a key wins.
collect_row_last_wins(valid_entries, row) ==
    LET p == parse_submission(row)
        key == <<p.email, p.report_date>>
    IN  IF p.exc = "ValidationError" THEN valid_entries
        ELSE IF ~is_valid(p.submitted_at, p.report_date) THEN valid_entries
        ELSE DictSet(valid_entries, key, <<p.submitted_at, p.team, p.steps>>)

\* A loop body in which a row takes the place of an entry of the same
\* submitted_at.
collect_row_ties_to_last(valid_entries, row) ==
    LET p == parse_submission(row)
        key == <<p.email, p.report_date>>
    IN  IF p.exc = "ValidationError" THEN valid_entries
        ELSE IF ~is_valid(p.submitted_at, p.report_date) THEN valid_entries
        ELSE IF \/ ~DictHas(valid_entries, key)
                \/ ~DatetimeLt(DictGet(valid_entries, key)[1], p.submitted_at)
        THEN DictSet(valid_entries, key, <<p.submitted_at, p.team, p.steps>>)
        ELSE valid_entries

\* A loop body that keeps one day per submitter: storing an entry drops the
\* entries of the submitter for other days.
collect_row_one_day(valid_entries, row) ==
    LET p == parse_submission(row)
        key == <<p.email, p.report_date>>
        others == SelectSeq(valid_entries,
                            LAMBDA e : e.key[1] # p.email \/ e.key = key)
    IN  IF p.exc = "ValidationError" THEN valid_entries
        ELSE IF ~is_valid(p.submitted_at, p.report_date) THEN valid_entries
        ELSE IF \/ ~DictHas(valid_entries, key)
                \/ DatetimeLt(p.submitted_at, DictGet(valid_entries, key)[1])
        THEN DictSet(others, key, <<p.submitted_at, p.team, p.steps>>)
        ELSE valid_entries

collect_row(valid_entries, row) ==
    LET p == parse_submission(row)
        key == <<p.email, p.report_date>>
    IN  IF p.exc = "ValidationError" THEN valid_entries
        ELSE IF ~is_valid(p.submitted_at, p.report_date) THEN valid_entries
        ELSE IF \/ ~DictHas(valid_entries, key)
                \/ DatetimeLt(p.submitted_at, DictGet(valid_entries, key)[1])
        THEN DictSet(valid_entries, key, <<p.submitted_at, p.team, p.steps>>)
        ELSE valid_entries

RECURSIVE collect_loop(_, _, _)
collect_loop(rows, i, valid_entries) ==
    IF i > Len(rows) THEN [exc |-> "", entries |-> valid_entries]
    ELSE IF parse_submission(rows[i]).exc = "AttributeError"
    THEN [exc |-> "AttributeError", entries |-> <<>>]
    ELSE collect_loop(rows, i + 1, collect_row(valid_entries, rows[i]))

collect_valid_entries(rows) == collect_loop(rows, 1, <<>>)

(***************************************************************************)
(* aggregate_by_team: team_totals[team] += steps over entries.values(),    *)
(* on a defaultdict(int).                                                  *)
(***************************************************************************)
\* An update that forgets what the team already has.
add_steps_overwrite(team_totals, team, steps) == DictSet(team_totals, team, steps)

add_steps(team_totals, team, steps) ==
    DictSet(team_totals, team,
            (IF DictHas(team_totals, team) THEN DictGet(team_totals, team) ELSE 0) + steps)

RECURSIVE aggregate_loop(_, _, _)
aggregate_loop(entries, i, team_totals) ==
    IF i > Len(entries) THEN team_totals
    ELSE aggregate_loop(entries, i + 1,
                        add_steps(team_totals, entries[i].val[2], entries[i].val[3]))

aggregate_by_team(entries) == aggregate_loop(entries, 1, <<>>)

(***************************************************************************)
(* build_daily_totals: daily_totals.setdefault(report_date, {}) and        *)
(* team_totals[team] = team_totals.get(team, 0) + steps.                   *)
(***************************************************************************)
\* An update that starts the day's dict afresh for every entry.
add_daily_fresh(daily_totals, report_date, team, steps) ==
    DictSet(daily_totals, report_date, add_steps(<<>>, team, steps))

add_daily(daily_totals, report_date, team, steps) ==
    LET team_totals == IF DictHas(daily_totals, report_date)
                       THEN DictGet(daily_totals, report_date) ELSE <<>>
    IN  DictSet(daily_totals, report_date, add_steps(team_totals, team, steps))

RECURSIVE daily_loop(_, _, _)
daily_loop(entries, i, daily_totals) ==
    IF i > Len(entries) THEN daily_totals
    ELSE daily_loop(entries, i + 1,
                    add_daily(daily_totals, entries[i].key[2],
                              entries[i].val[2], entries[i].val[3]))

build_daily_totals(entries) == daily_loop(entries, 1, <<>>)

(***************************************************************************)
(* The rows the engine is run on.                                          *)
(***************************************************************************)
MkRow(ts, day, team, steps, email) ==
    (COLUMN_TIMESTAMP :> ts) @@ (COLUMN_DAY :> day) @@ (COLUMN_TEAM :> team) @@
    (COLUMN_STEPS :> steps) @@ (COLUMN_EMAIL :> email)

TimestampCells ==
    { <<"29", ".", "11", ".", "2025", " ", "16", ":", "00", ":", "00">>,
      <<"29", ".", "11", ".", "2025", " ", "17", ":", "00", ":", "00">>,
      <<"01", ".", "12", ".", "2025", " ", "08", ":", "00", ":", "00">>,
      <<"02", ".", "12", ".", "2025", " ", "08", ":", "00", ":", "00">> }

DayCells ==
    { <<"29", ".", "11", ".", "2025">>, <<"30", ".", "11", ".", "2025">> }

\* <<team, steps, email>> cells: a submitter, the same submitter written in
\* another letter case with another team and count, and another submitter.
FirstWho == << <<"Alpha">>, <<"100">>, <<"a", "@", "x">> >>

OtherWho ==
    { << <<" ", "Beta", " ">>, <<"999">>, <<" ", "A", "@", "X", " ">> >>,
      << <<"Beta">>, <<"400">>, <<"b", "@", "x">> >> }

SameDayTimestamps ==
    { <<"29", ".", "11", ".", "2025", " ", "16", ":", "00", ":", "00">>,
      <<"29", ".", "11", ".", "2025", " ", "17", ":", "00", ":", "00">> }

GoodRows ==
    { MkRow(ts, day, FirstWho[1], FirstWho[2], FirstWho[3]) :
          ts \in TimestampCells, day \in DayCells }
    \cup
    { MkRow(ts, <<"29", ".", "11", ".", "2025">>, w[1], w[2], w[3]) :
          ts \in SameDayTimestamps, w \in OtherWho }

BaseTs == <<"29", ".", "11", ".", "2025", " ", "16", ":", "00", ":", "00">>
BaseDay == <<"29", ".", "11", ".", "2025">>

OddRows ==
    { \* steps that are no integer
      MkRow(BaseTs, BaseDay, <<"Alpha">>, <<"abc">>, <<"a", "@", "x">>),
      \* the team key is missing from the row
      (COLUMN_TIMESTAMP :> BaseTs) @@ (COLUMN_DAY :> BaseDay) @@
          (COLUMN_STEPS :> <<"100">>) @@ (COLUMN_EMAIL :> <<"a", "@", "x">>),
      \* a short CSV row: csv.DictReader fills the missing cells with None
      MkRow(BaseTs, BaseDay, <<"Alpha">>, None, None),
      \* a date that does not exist, before a cell that holds None
      MkRow(BaseTs, <<"31", ".", "11", ".", "2025">>, <<"Alpha">>, <<"100">>, None),
      \* a team that is empty once trimmed
      MkRow(BaseTs, BaseDay, <<" ">>, <<"100">>, <<"a", "@", "x">>),
      \* padded timestamp, negative steps, a team in another letter case
      MkRow(<<" ", "29", ".", "11", ".", "2025", " ", " ", "16", ":", "00", ":", "00", " ">>,
            BaseDay, <<"alpha">>, <<"-", "5">>, <<"B", "@", "x">>) }

RowDomain == GoodRows \cup OddRows

RowSeqs == UNION { [1..n -> RowDomain] : n \in 0..MaxRows }

(***************************************************************************)
(* fetch_sheet_rows on the values the Sheets API returned: a list of raw   *)
(* rows, each a list of cell texts.  The header is the first row whose     *)
(* normalized cells hold every required column; the keys of the returned   *)
(* rows are the stripped cells of the header.                              *)
(***************************************************************************)
REQUIRED_COLUMNS ==
    <<COLUMN_TIMESTAMP, COLUMN_DAY, COLUMN_TEAM, COLUMN_STEPS, COLUMN_EMAIL>>

\* " ".join(text.split()) on a stripped text: runs of blanks become one blank.
RECURSIVE collapse(_)
collapse(s) ==
    IF Len(s) < 2 THEN s
    ELSE IF IsSpace(s[1]) /\ IsSpace(s[2]) THEN collapse(Tail(s))
    ELSE <<s[1]>> \o collapse(Tail(s))

_normalize(value) == lower(collapse(strip(value)))

normalized_required == {_normalize(REQUIRED_COLUMNS[i]) : i \in 1..Len(REQUIRED_COLUMNS)}

cleaned(raw) == [i \in 1..Len(raw) |-> strip(raw[i])]

IsHeaderRow(raw) ==
    normalized_required \subseteq {_normalize(cleaned(raw)[i]) : i \in 1..Len(raw)}

\* The index of the header row, 0 when no row is one.
header_row_idx(values) ==
    IF \E i \in 1..Len(values) : IsHeaderRow(values[i])
    THEN CHOOSE i \in 1..Len(values) :
            IsHeaderRow(values[i]) /\ \A j \in 1..(i - 1) : ~IsHeaderRow(values[j])
    ELSE 0

\* header_indexes[_normalize(name)]: the last cell of the header with that
\* normalized name.
header_index(header, name) ==
    CHOOSE i \in 1..Len(header) :
        /\ _normalize(header[i]) = _normalize(name)
        /\ \A j \in (i + 1)..Len(header) : _normalize(header[j]) # _normalize(name)

sheet_row(header, raw) ==
    [column \in {header[i] : i \in 1..Len(header)} |->
        IF header_index(header, column) <= Len(raw)
        THEN strip(raw[header_index(header, column)])
        ELSE <<>>]

fetch_sheet_rows(values) ==
    IF values = <<>> THEN [exc |-> "", rows |-> <<>>]
    ELSE IF header_row_idx(values) = 0 THEN [exc |-> "ValidationError", rows |-> <<>>]
    ELSE LET h == header_row_idx(values)
             header == cleaned(values[h])
         IN  [exc |-> "",
              rows |-> [i \in 1..(Len(values) - h) |-> sheet_row(header, values[h + i])]]

(***************************************************************************)
(* The worksheets the Row Source may hold.                                 *)
(***************************************************************************)
SheetHeader ==
    <<COLUMN_TIMESTAMP, COLUMN_DAY, COLUMN_TEAM, COLUMN_STEPS, COLUMN_EMAIL>>

SheetValues ==
    { \* a header and two submissions, the second cut short
      << SheetHeader,
         << BaseTs, BaseDay, <<"Alpha">>, <<"100">>, <<"a", "@", "x">> >>,
         << BaseTs, BaseDay, <<"Beta">> >> >>,
      \* a header without the report-day column
      << <<COLUMN_TIMESTAMP, COLUMN_TEAM, COLUMN_STEPS, COLUMN_EMAIL>>,
         << BaseTs, <<"Alpha">>, <<"100">>, <<"a", "@", "x">> >> >>,
      \* an empty worksheet
      << >> }

(***************************************************************************)
(* str(), strftime("%d.%m.%Y"), the order of str values and sorted(), for  *)
(* the texts the bot and the exporters write.  A text of several lines is  *)
(* the sequence of its lines, and a line a sequence of tokens.             *)
(***************************************************************************)
DigitsOf(v) == IF v < 10 THEN 1 ELSE IF v < 100 THEN 2 ELSE IF v < 1000 THEN 3 ELSE 4

\* str(v) of an int that is not negative: no leading zero.
str(v) == CHOOSE tok \in DOMAIN Numerals : Numerals[tok] = [v |-> v, n |-> DigitsOf(v)]

\* "%d", "%m" and "%Y" of strftime: zero-padded to n digits.
Padded(v, n) == CHOOSE tok \in DOMAIN Numerals : Numerals[tok] = [v |-> v, n |-> n]

strftime(day) == <<Padded(day.d, 2), ".", Padded(day.m, 2), ".", Padded(day.y, 4)>>

\* The place of a team name in the order of str: code point by code point.
StrOrder == (<<"Alpha">> :> 1) @@ (<<"Beta">> :> 2) @@ (<<"alpha">> :> 3)

\* sorted(S) of a set of team names, and of a set of dates.
RECURSIVE sorted_teams(_)
sorted_teams(S) ==
    IF S = {} THEN <<>>
    ELSE LET first == CHOOSE x \in S : \A y \in S : StrOrder[x] <= StrOrder[y]
         IN  <<first>> \o sorted_teams(S \ {first})

RECURSIVE sorted_dates(_)
sorted_dates(S) ==
    IF S = {} THEN <<>>
    ELSE LET first == CHOOSE x \in S : \A y \in S : toordinal(x) <= toordinal(y)
         IN  <<first>> \o sorted_dates(S \ {first})

\* max(S) of a set of dates that is not empty.
max_date(S) == CHOOSE x \in S : \A y \in S : toordinal(y) <= toordinal(x)

\* A sort that puts an item before the items of equal steps that came first.
RECURSIVE insert_by_steps_unstable(_, _)
insert_by_steps_unstable(done, item) ==
    IF done = <<>> THEN <<item>>
    ELSE IF Head(done).val > item.val
    THEN <<Head(done)>> \o insert_by_steps_unstable(Tail(done), item)
    ELSE <<item>> \o done

\* sorted(totals.items(), key=lambda item: item[1], reverse=True): the sort is
\* stable, so an item goes after the items, already placed, that do not have
\* fewer steps.
RECURSIVE insert_by_steps(_, _)
insert_by_steps(done, item) ==
    IF done = <<>> THEN <<item>>
    ELSE IF Head(done).val >= item.val
    THEN <<Head(done)>> \o insert_by_steps(Tail(done), item)
    ELSE <<item>> \o done

RECURSIVE sorted_by_steps_loop(_, _, _)
sorted_by_steps_loop(items, i, done) ==
    IF i > Len(items) THEN done
    ELSE sorted_by_steps_loop(items, i + 1, insert_by_steps(done, items[i]))

sorted_by_steps(items) == sorted_by_steps_loop(items, 1, <<>>)

\* dict.get(k): <<>> for None, <<value>> otherwise.
get(dct, k) == IF DictHas(dct, k) THEN <<DictGet(dct, k)>> ELSE <<>>

\* "not totals" of an Optional[Dict]: None or an empty dict.
IsFalsy(totals) == totals = <<>> \/ totals[1] = <<>>

(***************************************************************************)
(* The fixed texts of bot.py (transliterated).                             *)
(***************************************************************************)
LeaderboardTitle == "Komandy - top po shagam"
NoDataForQuery == "Net dostupnyh dannyh po etomu zaprosu."
NoDataForDay == "Net dostupnyh dannyh po etomu dnyu."
GrowthHeading == "Prirost za posledniy den:"
PreviousDayUnavailable == "Dannye dlya predydushchego dnya nedostupny."
PrivateOnly == "Eta komanda dostupna tolko v lichnom chate s botom."
DaybydayUsage == "Ispolzovanie: /daybyday DD.MM"
DateError == "Oshibka v date. Ispolzuy DD.MM format."
NothingFound == "Nichego ne nashlos dlya etogo dnya."

(***************************************************************************)
(* format_totals_table and format_daily_table.                             *)
(***************************************************************************)
format_totals_table(totals, title) ==
    IF totals = <<>> THEN << <<title>>, <<NoDataForQuery>> >>
    ELSE LET items == sorted_by_steps(totals)
         IN  << <<title>> >> \o
             [idx \in 1..Len(items) |->
                 <<str(idx), ". ">> \o items[idx].key \o <<": ", str(items[idx].val)>>]

format_daily_table(target_day, totals) ==
    LET label == strftime(target_day)
    IN  IF IsFalsy(totals) THEN <<label, <<NoDataForDay>> >>
        ELSE LET items == sorted_by_steps(totals[1])
             IN  <<label>> \o
                 [idx \in 1..Len(items) |->
                     <<str(idx), ". ">> \o items[idx].key \o
                     <<": +", str(items[idx].val)>>]

(***************************************************************************)
(* nearest_day_match, latest_available_day and compose_report.  An         *)
(* Optional[date] is <<>> for None and <<day>> otherwise.                  *)
(***************************************************************************)
\* A match that takes the latest date with the month and day of the target.
first_same_day_latest(days, target) ==
    IF \E i \in 1..Len(days) : days[i].m = target.m /\ days[i].d = target.d
    THEN <<days[CHOOSE i \in 1..Len(days) :
                  /\ days[i].m = target.m /\ days[i].d = target.d
                  /\ \A j \in (i + 1)..Len(days) :
                        ~(days[j].m = target.m /\ days[j].d = target.d)]>>
    ELSE <<>>

\* "for day in sorted(...): if day.month == target.month and day.day ==
\* target.day: return day", and "return None" after the loop.
first_same_day(days, target) ==
    IF \E i \in 1..Len(days) : days[i].m = target.m /\ days[i].d = target.d
    THEN <<days[CHOOSE i \in 1..Len(days) :
                  /\ days[i].m = target.m /\ days[i].d = target.d
                  /\ \A j \in 1..(i - 1) :
                        ~(days[j].m = target.m /\ days[j].d = target.d)]>>
    ELSE <<>>

nearest_day_match(target, daily) ==
    IF DictHas(daily, target) THEN <<target>>
    ELSE first_same_day(sorted_dates(DictKeys(daily)), target)

\* A choice of the day that lets in the days after the reference.
latest_of_all(reference, daily) ==
    IF DictKeys(daily) # {} THEN <<max_date(DictKeys(daily))>> ELSE <<>>

latest_available_day(reference, daily) ==
    LET candidates == {day \in DictKeys(daily) : toordinal(day) <= toordinal(reference)}
    IN  IF candidates # {} THEN <<max_date(candidates)>> ELSE <<>>

\* reference_date - timedelta(days=1)
yesterday(day) ==
    IF day.d > 1 THEN [day EXCEPT !.d = day.d - 1]
    ELSE IF day.m > 1
    THEN [y |-> day.y, m |-> day.m - 1, d |-> DaysInMonth(day.y, day.m - 1)]
    ELSE [y |-> day.y - 1, m |-> 12, d |-> 31]

\* A choice of the previous day that lets in the reference date itself.
previous_day_or_same(daily, reference_date) ==
    LET previous_candidates ==
            {d \in DictKeys(daily) : toordinal(d) <= toordinal(reference_date)}
    IN  IF previous_candidates # {} THEN <<max_date(previous_candidates)>> ELSE <<>>

\* "previous_day" of compose_report.
previous_day_of(daily, reference_date) ==
    IF DictHas(daily, yesterday(reference_date)) THEN <<yesterday(reference_date)>>
    ELSE LET previous_candidates ==
                 {d \in DictKeys(daily) : toordinal(d) < toordinal(reference_date)}
         IN  IF previous_candidates # {} THEN <<max_date(previous_candidates)>>
             ELSE <<>>

compose_report(snapshot, reference_date) ==
    LET totals_text == format_totals_table(snapshot.team_totals, LeaderboardTitle)
        previous_day == previous_day_of(snapshot.daily_totals, reference_date)
    IN  IF previous_day # <<>>
        THEN [response |->
                  totals_text \o << <<>>, <<GrowthHeading>> >> \o
                  format_daily_table(previous_day[1],
                                     get(snapshot.daily_totals, previous_day[1])),
              previous_day |-> previous_day]
        ELSE [response |->
                  totals_text \o << <<>>, <<GrowthHeading>>, <<PreviousDayUnavailable>> >>,
              previous_day |-> previous_day]

(***************************************************************************)
(* emit_daily_report: the header and the rows it writes, cell by cell.     *)
(***************************************************************************)
\* A row that leaves out the teams absent on its date.
daily_report_row_unfilled(day, totals, teams) ==
    <<strftime(day)>> \o
    [i \in 1..Cardinality(DictKeys(totals)) |->
        str(DictGet(totals, sorted_teams(DictKeys(totals))[i]))]

\* "row = [report_day.strftime(DATE_FMT)]" and
\* "row.extend(str(totals.get(team, 0)) for team in teams)"
daily_report_row(day, totals, teams) ==
    <<strftime(day)>> \o
    [i \in 1..Len(teams) |->
        IF DictHas(totals, teams[i]) THEN str(DictGet(totals, teams[i])) ELSE str(0)]

emit_daily_report(daily) ==
    LET teams == sorted_teams(UNION {DictKeys(daily[i].val) : i \in 1..Len(daily)})
        days == sorted_dates(DictKeys(daily))
    IN  [header |-> << <<"date">> >> \o [i \in 1..Len(teams) |-> teams[i]],
         rows |-> [i \in 1..Len(days) |->
                      daily_report_row(days[i], DictGet(daily, days[i]), teams)]]

(***************************************************************************)
(* read_rows on a CSV file: fieldnames is <<>> for a file without a first  *)
(* line and <<cells>> otherwise; csv.DictReader gives a record that is     *)
(* shorter than the header None for the cells it lacks.                    *)
(***************************************************************************)
csv_row(fieldnames, record) ==
    [column \in {fieldnames[i] : i \in 1..Len(fieldnames)} |->
        LET idx == CHOOSE i \in 1..Len(fieldnames) :
                       /\ fieldnames[i] = column
                       /\ \A j \in (i + 1)..Len(fieldnames) : fieldnames[j] # column
        IN  IF idx <= Len(record) THEN record[idx] ELSE None]

read_rows(csv_file) ==
    IF csv_file.fieldnames = <<>> THEN [exc |-> "TypeError", rows |-> <<>>]
    ELSE LET fieldnames == csv_file.fieldnames[1]
             missing == {i \in 1..Len(_required_columns) :
                            \A j \in 1..Len(fieldnames) :
                                fieldnames[j] # _required_columns[i]}
         IN  IF missing # {} THEN [exc |-> "ValidationError", rows |-> <<>>]
             ELSE [exc |-> "",
                   rows |-> [i \in 1..Len(csv_file.records) |->
                                csv_row(fieldnames, csv_file.records[i])]]

(***************************************************************************)
(* "%d.%m" of handle_daybyday: strptime fills in the year 1900, which      *)
(* "replace(year=today.year)" then changes.                                *)
(***************************************************************************)
DefaultYear == 1900

strptime_day_month(t) ==
    IF /\ Len(t) = 3
       /\ IsNum(t[1]) /\ t[2] = "." /\ IsNum(t[3])
       /\ Numerals[t[1]].n <= 2 /\ Numerals[t[3]].n <= 2
       /\ Numerals[t[3]].v \in 1..12
       /\ Numerals[t[1]].v \in 1..DaysInMonth(DefaultYear, Numerals[t[3]].v)
    THEN [ok |-> TRUE, val |-> [y |-> DefaultYear, m |-> Numerals[t[3]].v,
                                 d |-> Numerals[t[1]].v]]
    ELSE [ok |-> FALSE, val |-> NoDate]

(***************************************************************************)
(* Tasks of the event loop: the command handlers, which call               *)
(* get_snapshot(), and daily_report_loop, which calls                      *)
(* get_snapshot(force=True).                                               *)
(***************************************************************************)
Handlers == 1..NumHandlers
Scheduler == NumHandlers + 1
Tasks == Handlers \cup {Scheduler}
NoTask == Scheduler + 1

Force(t) == t = Scheduler

\* datetime.min: before every reading of the clock.
DatetimeMin == 0 - 1

NoThread == [state |-> "none", exc |-> "", snap |-> <<>>]
RunningThread == [state |-> "running", exc |-> "", snap |-> <<>>]

\* A call that found the lock free.
NoArrival == [holder |-> NoTask, oid |-> 0, fate |-> "none"]

(***************************************************************************)
(* State.                                                                  *)
(***************************************************************************)
VARIABLES
    rows,           \* the input of collect_valid_entries
    row_idx,        \* the position of its loop
    valid_entries,  \* its dict
    entries_pc,     \* "collect", "aggregate", "done" or "raised"
    team_totals,    \* the result of aggregate_by_team
    daily_totals,   \* the result of build_daily_totals
    clock,          \* the wall clock, in ticks
    _snapshot,      \* SheetDataService._snapshot: <<>> for None, or <<snapshot>>
    _expires_at,    \* SheetDataService._expires_at
    lock_owner,     \* the task that holds SheetDataService._lock, or NoTask
    lock_waiters,   \* the tasks waiting for it, first come first
    pc,             \* where each task is
    now,            \* the "now" each task's call of get_snapshot read
    outcome,        \* of each task's last call: "none", "pending", "returned",
                    \* "cancelled", or the exception it raised
    result,         \* what it returned: <<>> or <<snapshot>>
    thread,         \* the worker thread of asyncio.to_thread of each task
    orphans,        \* worker threads still running whose awaiting task was cancelled
    fetches,        \* Row Source calls started by each task's last call
    next_oid,       \* identity of the next DataSnapshot object
    calls,          \* commands dispatched so far
    sched_target,   \* "target" of daily_report_loop
    arrival,        \* what each waiting call found when it was made: the holder of
                    \* the lock, the snapshot then stored, and what became of the
                    \* holder's refresh
    sent,           \* messages each task has sent for its request
    request,        \* a handler or an exporter run on its own: what is run, the
                    \* chat type of the message, the argument of the command and
                    \* the current date
    given,          \* the snapshot its service returns, or the mapping it is given
    source,         \* the CSV file or the worksheet values a Row Source reads
    view_pc,        \* "unused", "start", "awaiting", "done" or "raised"
    answers,        \* message.answers: the texts sent with message.answer
    service_calls,  \* calls of service.get_snapshot
    returned        \* what the function under the run returned

engine_vars == <<rows, row_idx, valid_entries, entries_pc, team_totals, daily_totals>>

cache_vars ==
    <<clock, _snapshot, _expires_at, lock_owner, lock_waiters, pc, now, outcome,
      result, thread, orphans, fetches, next_oid, calls, sched_target, arrival,
      sent>>

view_vars == <<request, given, source, view_pc, answers, service_calls, returned>>

vars == <<engine_vars, cache_vars, view_vars>>

(***************************************************************************)
(* daily_report_loop: the next target after "now".                         *)
(***************************************************************************)
NextTarget(n) ==
    LET target == (n \div DayLen) * DayLen + ReportAt
    IN  IF n >= target THEN target + DayLen ELSE target

\* No handler or exporter is run on its own.
NoRequest == [command |-> "none", chat_type |-> "private", argument |-> <<>>,
              current_date |-> NoDate]
NoSnapshot == [team_totals |-> <<>>, daily_totals |-> <<>>]
NoSource == [fieldnames |-> <<>>, records |-> <<>>, values |-> <<>>]

ViewIdle ==
    /\ request = NoRequest
    /\ given = NoSnapshot
    /\ source = NoSource
    /\ view_pc = "unused"
    /\ answers = <<>>
    /\ service_calls = 0
    /\ returned = <<>>

EngineIdle ==
    /\ rows = <<>>
    /\ row_idx = 1
    /\ valid_entries = <<>>
    /\ entries_pc = "unused"
    /\ team_totals = <<>>
    /\ daily_totals = <<>>

\* SheetDataService.__init__, and the tasks before their first step.
CacheInit ==
    /\ clock = 0
    /\ _snapshot = <<>>
    /\ _expires_at = DatetimeMin
    /\ lock_owner = NoTask
    /\ lock_waiters = <<>>
    /\ pc = [t \in Tasks |-> IF t = Scheduler THEN "sleep" ELSE "idle"]
    /\ now = [t \in Tasks |-> 0]
    /\ outcome = [t \in Tasks |-> "none"]
    /\ result = [t \in Tasks |-> <<>>]
    /\ thread = [t \in Tasks |-> NoThread]
    /\ orphans = 0
    /\ fetches = [t \in Tasks |-> 0]
    /\ next_oid = 1
    /\ calls = 0
    /\ sched_target = NextTarget(0)
    /\ arrival = [t \in Tasks |-> NoArrival]
    /\ sent = [t \in Tasks |-> 0]

(***************************************************************************)
(* The engine on its own: collect_valid_entries, then the aggregators.     *)
(***************************************************************************)
EngineInit ==
    /\ rows \in RowSeqs
    /\ row_idx = 1
    /\ valid_entries = <<>>
    /\ entries_pc = "collect"
    /\ team_totals = <<>>
    /\ daily_totals = <<>>
    /\ CacheInit
    /\ ViewIdle

\* One iteration of "for row in rows".
CollectRow ==
    /\ entries_pc = "collect"
    /\ row_idx <= Len(rows)
    /\ parse_submission(rows[row_idx]).exc # "AttributeError"
    /\ valid_entries' = collect_row(valid_entries, rows[row_idx])
    /\ row_idx' = row_idx + 1
    /\ UNCHANGED <<rows, entries_pc, team_totals, daily_totals, cache_vars, view_vars>>

\* parse_submission raises an exception that collect_valid_entries does not catch.
CollectRaise ==
    /\ entries_pc = "collect"
    /\ row_idx <= Len(rows)
    /\ parse_submission(rows[row_idx]).exc = "AttributeError"
    /\ entries_pc' = "raised"
    /\ UNCHANGED <<rows, row_idx, valid_entries, team_totals, daily_totals, cache_vars, view_vars>>

\* "return valid_entries"
CollectReturn ==
    /\ entries_pc = "collect"
    /\ row_idx > Len(rows)
    /\ entries_pc' = "aggregate"
    /\ UNCHANGED <<rows, row_idx, valid_entries, team_totals, daily_totals, cache_vars, view_vars>>

\* aggregate_by_team(entries) and build_daily_totals(entries), as the callers run them.
Aggregate ==
    /\ entries_pc = "aggregate"
    /\ team_totals' = aggregate_by_team(valid_entries)
    /\ daily_totals' = build_daily_totals(valid_entries)
    /\ entries_pc' = "done"
    /\ UNCHANGED <<rows, row_idx, valid_entries, cache_vars, view_vars>>

EngineNext == CollectRow \/ CollectRaise \/ CollectReturn \/ Aggregate

SpecEngine == EngineInit /\ [][EngineNext]_vars

(***************************************************************************)
(* SheetDataService._load_snapshot, run in a worker thread: the rows of    *)
(* the worksheet, the entries and the totals, in one DataSnapshot built at *)
(* time "at".  oid stands for the identity of the object.                  *)
(***************************************************************************)
_load_snapshot(values, at, oid) ==
    LET fetched == fetch_sheet_rows(values)
        collected == collect_valid_entries(fetched.rows)
    IN  IF fetched.exc # "" THEN [state |-> "failed", exc |-> fetched.exc, snap |-> <<>>]
        ELSE IF collected.exc # ""
        THEN [state |-> "failed", exc |-> collected.exc, snap |-> <<>>]
        ELSE [state |-> "ok", exc |-> "",
              snap |-> << [entries |-> collected.entries,
                           team_totals |-> aggregate_by_team(collected.entries),
                           daily_totals |-> build_daily_totals(collected.entries),
                           fetched_at |-> at,
                           oid |-> oid] >>]

(***************************************************************************)
(* SheetDataService.get_snapshot.                                          *)
(***************************************************************************)
\* The comparison with the expiry, the wrong way round.
CacheHit_reversed(force, n) == ~force /\ _snapshot # <<>> /\ n > _expires_at

\* "not force and self._snapshot and now < self._expires_at"
CacheHit(force, n) == ~force /\ _snapshot # <<>> /\ n < _expires_at

\* An expiry counted from the time of the store, not from the "now" of the call.
NewExpiry_from_clock(n) == clock + CacheTtl

\* "now + timedelta(seconds=self._cache_ttl)"
NewExpiry(n) == n + CacheTtl

\* "async with self._lock": the holder of the lock once the block is left by a
\* return, by an exception of _load_snapshot, or by the cancellation of the task.
ReleasedOnReturn(t) == NoTask

\* A lock that is not released when the block is left by an exception.
ReleasedOnException_kept(t) == t

ReleasedOnException(t) == NoTask

\* A lock that is not released when the task is cancelled.
ReleasedOnCancel_kept(t) == t

ReleasedOnCancel(t) == NoTask

\* Where a task goes on once get_snapshot has returned, or raised.
AfterReturn(t) == IF t = Scheduler THEN "sending" ELSE "returned"
\* SystemExit is no Exception: no "except Exception" catches it, it leaves the
\* task, and the task is over.
AfterRaise(t) ==
    IF thread[t].exc = "SystemExit" THEN "exited"
    ELSE IF t = Scheduler THEN "backoff" ELSE "raised"

\* SystemExit left a task: the event loop re-raises it out of run_forever, and
\* the program ends.
Exited == \E t \in Tasks : pc[t] = "exited"

\* The block under the lock, up to its return or its await: task t holds the
\* lock and has read n as "now".
UnderLock(t, n) ==
    IF CacheHit(Force(t), n)
    THEN /\ result' = [result EXCEPT ![t] = _snapshot]
         /\ outcome' = [outcome EXCEPT ![t] = "returned"]
         /\ lock_owner' = ReleasedOnReturn(t)
         /\ pc' = [pc EXCEPT ![t] = AfterReturn(t)]
         /\ fetches' = [fetches EXCEPT ![t] = 0]
         /\ UNCHANGED thread
    ELSE /\ thread' = [thread EXCEPT ![t] = RunningThread]
         /\ fetches' = [fetches EXCEPT ![t] = 1]
         /\ outcome' = [outcome EXCEPT ![t] = "pending"]
         /\ result' = [result EXCEPT ![t] = <<>>]
         /\ lock_owner' = t
         /\ pc' = [pc EXCEPT ![t] = "loading"]

\* What a call of get_snapshot() finds: the refresh of the holder of the lock in
\* flight, and the snapshot stored meanwhile.
Found(t) ==
    IF Force(t) \/ lock_owner = NoTask THEN NoArrival
    ELSE [holder |-> lock_owner,
          oid |-> IF _snapshot = <<>> THEN 0 ELSE _snapshot[1].oid,
          fate |-> "inflight"]

\* The refresh of task h is over: the calls that found it in flight learn how.
Settle(h, how) ==
    [t \in Tasks |->
        IF arrival[t].holder = h
        THEN [arrival[t] EXCEPT !.holder = NoTask, !.fate = how]
        ELSE arrival[t]]

\* get_snapshot from its first line to its first suspension: "now" is read, and
\* the lock is taken at once when it is free and nobody waits for it.
Call(t) ==
    /\ now' = [now EXCEPT ![t] = clock]
    /\ IF lock_owner = NoTask /\ lock_waiters = <<>>
       THEN /\ UnderLock(t, clock)
            /\ UNCHANGED lock_waiters
       ELSE /\ lock_waiters' = Append(lock_waiters, t)
            /\ pc' = [pc EXCEPT ![t] = "waiting"]
            /\ outcome' = [outcome EXCEPT ![t] = "pending"]
            /\ result' = [result EXCEPT ![t] = <<>>]
            /\ fetches' = [fetches EXCEPT ![t] = 0]
            /\ UNCHANGED <<lock_owner, thread>>
    /\ arrival' = [arrival EXCEPT ![t] = Found(t)]
    /\ sent' = [sent EXCEPT ![t] = 0]
    /\ UNCHANGED <<_snapshot, _expires_at, orphans, next_oid>>

\* A command arrives and its handler calls get_snapshot().
Dispatch(t) ==
    /\ ~Exited
    /\ t \in Handlers
    /\ pc[t] = "idle"
    /\ calls < MaxCalls
    /\ calls' = calls + 1
    /\ Call(t)
    /\ UNCHANGED <<clock, sched_target, engine_vars, view_vars>>

\* A lock that wakes any of its waiters, not the first.
Wake_any(t) ==
    /\ ~Exited
    /\ pc[t] = "waiting"
    /\ lock_owner = NoTask
    /\ \E i \in 1..Len(lock_waiters) : lock_waiters[i] = t
    /\ lock_waiters' = SelectSeq(lock_waiters, LAMBDA w : w # t)
    /\ UnderLock(t, now[t])
    /\ UNCHANGED <<clock, _snapshot, _expires_at, now, orphans, next_oid, calls,
                   sched_target, arrival, sent, engine_vars, view_vars>>

\* The lock was released and the first waiter goes on under the lock.
Wake(t) ==
    /\ ~Exited
    /\ pc[t] = "waiting"
    /\ lock_owner = NoTask
    /\ lock_waiters # <<>> /\ Head(lock_waiters) = t
    /\ lock_waiters' = Tail(lock_waiters)
    /\ UnderLock(t, now[t])
    /\ UNCHANGED <<clock, _snapshot, _expires_at, now, orphans, next_oid, calls,
                   sched_target, arrival, sent, engine_vars, view_vars>>

\* The worker thread of task t ends: the file of the service-account key is not
\* there and fetch_sheet_rows raises SystemExit, or the Sheets API fails, or
\* fetch_sheet_rows reads some worksheet and _load_snapshot returns or raises.
ThreadFinish(t) ==
    /\ ~Exited
    /\ thread[t].state = "running"
    /\ \/ /\ thread' = [thread EXCEPT ![t] = [state |-> "failed", exc |-> "SystemExit",
                                               snap |-> <<>>]]
          /\ UNCHANGED next_oid
       \/ /\ thread' = [thread EXCEPT ![t] = [state |-> "failed", exc |-> "HttpError",
                                               snap |-> <<>>]]
          /\ UNCHANGED next_oid
       \/ \E values \in SheetValues :
             /\ thread' = [thread EXCEPT ![t] = _load_snapshot(values, clock, next_oid)]
             /\ next_oid' = IF thread'[t].state = "ok" THEN next_oid + 1 ELSE next_oid
    /\ UNCHANGED <<clock, _snapshot, _expires_at, lock_owner, lock_waiters, pc, now,
                   outcome, result, orphans, fetches, calls, sched_target, arrival,
                   sent, engine_vars, view_vars>>

\* "await asyncio.to_thread(...)" returns: the snapshot and its expiry are
\* stored, the lock is released and the snapshot returned.
ResumeStored(t) ==
    /\ ~Exited
    /\ pc[t] = "loading"
    /\ thread[t].state = "ok"
    /\ _snapshot' = thread[t].snap
    /\ _expires_at' = NewExpiry(now[t])
    /\ result' = [result EXCEPT ![t] = thread[t].snap]
    /\ outcome' = [outcome EXCEPT ![t] = "returned"]
    /\ lock_owner' = ReleasedOnReturn(t)
    /\ pc' = [pc EXCEPT ![t] = AfterReturn(t)]
    /\ thread' = [thread EXCEPT ![t] = NoThread]
    /\ arrival' = Settle(t, "stored")
    /\ UNCHANGED <<clock, lock_waiters, now, orphans, fetches, next_oid, calls,
                   sched_target, sent, engine_vars, view_vars>>

\* A failure that throws the stored snapshot away.
ResumeRaised_drops(t) ==
    /\ ~Exited
    /\ pc[t] = "loading"
    /\ thread[t].state = "failed"
    /\ outcome' = [outcome EXCEPT ![t] = thread[t].exc]
    /\ lock_owner' = ReleasedOnException(t)
    /\ pc' = [pc EXCEPT ![t] = AfterRaise(t)]
    /\ thread' = [thread EXCEPT ![t] = NoThread]
    /\ arrival' = Settle(t, "failed")
    /\ _snapshot' = <<>>
    /\ _expires_at' = DatetimeMin
    /\ UNCHANGED <<clock, lock_waiters, now, result, orphans,
                   fetches, next_oid, calls, sched_target, sent, engine_vars, view_vars>>

\* "await asyncio.to_thread(...)" raises what _load_snapshot raised.
ResumeRaised(t) ==
    /\ ~Exited
    /\ pc[t] = "loading"
    /\ thread[t].state = "failed"
    /\ outcome' = [outcome EXCEPT ![t] = thread[t].exc]
    /\ lock_owner' = ReleasedOnException(t)
    /\ pc' = [pc EXCEPT ![t] = AfterRaise(t)]
    /\ thread' = [thread EXCEPT ![t] = NoThread]
    /\ arrival' = Settle(t, "failed")
    /\ UNCHANGED <<clock, _snapshot, _expires_at, lock_waiters, now, result, orphans,
                   fetches, next_oid, calls, sched_target, sent, engine_vars, view_vars>>

\* The locals of a call are gone once its caller is done with them.
Forget(t) ==
    /\ now' = [now EXCEPT ![t] = 0]
    /\ outcome' = [outcome EXCEPT ![t] = "none"]
    /\ result' = [result EXCEPT ![t] = <<>>]
    /\ fetches' = [fetches EXCEPT ![t] = 0]
    /\ arrival' = [arrival EXCEPT ![t] = NoArrival]

\* The handler answers with what it got, and its task ends.
Answer(t) ==
    /\ ~Exited
    /\ t \in Handlers
    /\ pc[t] = "returned"
    /\ pc' = [pc EXCEPT ![t] = "idle"]
    /\ sent' = [sent EXCEPT ![t] = 1]
    /\ Forget(t)
    /\ UNCHANGED <<clock, _snapshot, _expires_at, lock_owner, lock_waiters, thread,
                   orphans, next_oid, calls, sched_target, engine_vars, view_vars>>

\* The exception leaves the handler, and its task ends.
HandlerRaise(t) ==
    /\ ~Exited
    /\ t \in Handlers
    /\ pc[t] = "raised"
    /\ pc' = [pc EXCEPT ![t] = "idle"]
    /\ UNCHANGED sent
    /\ Forget(t)
    /\ UNCHANGED <<clock, _snapshot, _expires_at, lock_owner, lock_waiters, thread,
                   orphans, next_oid, calls, sched_target, engine_vars, view_vars>>

(***************************************************************************)
(* daily_report_loop.                                                      *)
(***************************************************************************)
\* asyncio.sleep(wait_seconds) is over: get_snapshot(force=True).
SchedWake ==
    /\ ~Exited
    /\ pc[Scheduler] = "sleep"
    /\ clock >= sched_target
    /\ Call(Scheduler)
    /\ UNCHANGED <<clock, calls, sched_target, engine_vars, view_vars>>

\* bot.send_message returns, and the loop computes its next target; or it
\* raises, and the loop sleeps ten seconds first.
SchedSend ==
    /\ ~Exited
    /\ pc[Scheduler] = "sending"
    /\ \/ /\ pc' = [pc EXCEPT ![Scheduler] = "sleep"]
          /\ sched_target' = NextTarget(clock)
          /\ sent' = [sent EXCEPT ![Scheduler] = 1]
       \/ /\ pc' = [pc EXCEPT ![Scheduler] = "backoff"]
          /\ UNCHANGED <<sched_target, sent>>
    /\ Forget(Scheduler)
    /\ UNCHANGED <<clock, _snapshot, _expires_at, lock_owner, lock_waiters, thread,
                   orphans, next_oid, calls, engine_vars, view_vars>>

\* asyncio.sleep(10) is over.
SchedBackoff ==
    /\ ~Exited
    /\ pc[Scheduler] = "backoff"
    /\ pc' = [pc EXCEPT ![Scheduler] = "sleep"]
    /\ sched_target' = NextTarget(clock)
    /\ UNCHANGED sent
    /\ Forget(Scheduler)
    /\ UNCHANGED <<clock, _snapshot, _expires_at, lock_owner, lock_waiters, thread,
                   orphans, next_oid, calls, engine_vars, view_vars>>

\* run_bot's scheduler_task.cancel(): CancelledError is raised at the await the
\* task is suspended in.  A worker thread that is running keeps running.
SchedCancel ==
    /\ ~Exited
    /\ pc[Scheduler] \in {"sleep", "waiting", "loading", "sending", "backoff"}
    /\ pc' = [pc EXCEPT ![Scheduler] = "cancelled"]
    /\ IF pc[Scheduler] = "waiting"
       THEN /\ lock_waiters' = SelectSeq(lock_waiters, LAMBDA w : w # Scheduler)
            /\ outcome' = [outcome EXCEPT ![Scheduler] = "cancelled"]
            /\ UNCHANGED <<lock_owner, thread, orphans, arrival>>
       ELSE IF pc[Scheduler] = "loading"
       THEN /\ lock_owner' = ReleasedOnCancel(Scheduler)
            /\ outcome' = [outcome EXCEPT ![Scheduler] = "cancelled"]
            /\ thread' = [thread EXCEPT ![Scheduler] = NoThread]
            /\ orphans' = IF thread[Scheduler].state = "running"
                          THEN orphans + 1 ELSE orphans
            /\ arrival' = Settle(Scheduler, "cancelled")
            /\ UNCHANGED lock_waiters
       ELSE UNCHANGED <<lock_owner, lock_waiters, outcome, thread, orphans, arrival>>
    /\ UNCHANGED <<clock, _snapshot, _expires_at, now, result, fetches, next_oid,
                   calls, sched_target, sent, engine_vars, view_vars>>

\* A worker thread that stores what it built itself, without the lock.
OrphanFinish_stores ==
    /\ ~Exited
    /\ orphans > 0
    /\ orphans' = orphans - 1
    /\ \E values \in SheetValues :
          /\ _load_snapshot(values, clock, next_oid).state = "ok"
          /\ _snapshot' = _load_snapshot(values, clock, next_oid).snap
    /\ UNCHANGED <<clock, _expires_at, lock_owner, lock_waiters, pc, now,
                   outcome, result, thread, fetches, next_oid, calls, sched_target,
                   arrival, sent, engine_vars, view_vars>>

\* A worker thread nobody awaits ends, and what it built is dropped.
OrphanFinish ==
    /\ ~Exited
    /\ orphans > 0
    /\ orphans' = orphans - 1
    /\ UNCHANGED <<clock, _snapshot, _expires_at, lock_owner, lock_waiters, pc, now,
                   outcome, result, thread, fetches, next_oid, calls, sched_target,
                   arrival, sent, engine_vars, view_vars>>

Tick ==
    /\ ~Exited
    /\ clock < MaxClock
    /\ clock' = clock + 1
    /\ UNCHANGED <<_snapshot, _expires_at, lock_owner, lock_waiters, pc, now, outcome,
                   result, thread, orphans, fetches, next_oid, calls, sched_target,
                   arrival, sent, engine_vars, view_vars>>

Init == EngineIdle /\ CacheInit /\ ViewIdle

Next ==
    \/ \E t \in Handlers : Dispatch(t) \/ Answer(t) \/ HandlerRaise(t)
    \/ \E t \in Tasks : Wake(t) \/ ThreadFinish(t) \/ ResumeStored(t) \/ ResumeRaised(t)
    \/ SchedWake \/ SchedSend \/ SchedBackoff \/ SchedCancel
    \/ OrphanFinish
    \/ Tick

Spec == Init /\ [][Next]_vars

(***************************************************************************)
(* The handlers and the exporters, each run on its own as the tests run    *)
(* them: a handler with a message, a service that returns a given snapshot *)
(* or raises, and a current date; emit_daily_report with a mapping; a Row  *)
(* Source with a file or a worksheet.                                      *)
(***************************************************************************)
MaxTeams == 3      \* teams in a mapping of totals
MaxDays == 2       \* dates in a mapping of daily totals

ViewTeams == {<<"Alpha">>, <<"Beta">>, <<"alpha">>}
StepCounts == {5, 100}

\* The dicts of at most n keys, in every insertion order.
Dicts(keys, vals, n) ==
    {dct \in UNION {[1..k -> [key : keys, val : vals]] : k \in 0..n} :
        \A i, j \in 1..Len(dct) : dct[i].key = dct[j].key => i = j}

TotalsDomain == Dicts(ViewTeams, StepCounts, MaxTeams)

\* The totals of a day: build_daily_totals gives every date a team.
DayTotals ==
    { << [key |-> <<"Alpha">>, val |-> 100] >>,
      << [key |-> <<"Beta">>, val |-> 5], [key |-> <<"Alpha">>, val |-> 5] >>,
      << [key |-> <<"alpha">>, val |-> 5], [key |-> <<"Beta">>, val |-> 100] >> }

ViewDates ==
    { [y |-> 2024, m |-> 11, d |-> 29], [y |-> 2025, m |-> 11, d |-> 29],
      [y |-> 2025, m |-> 11, d |-> 30], [y |-> 2025, m |-> 12, d |-> 1] }

DailyDomain == Dicts(ViewDates, DayTotals, MaxDays)

\* The totals compose_report is given next to the daily totals.
ReportTotals ==
    { <<>>, << [key |-> <<"Beta">>, val |-> 100], [key |-> <<"Alpha">>, val |-> 100] >> }

ChatTypes == {"private", "group"}

\* command.args of /daybyday: None where the command has no argument.
Arguments ==
    { None, <<>>, <<"29", ".", "11">>, <<" ", "30", ".", "11", " ">>,
      <<"01", ".", "12">>, <<"29", ".", "02">>, <<"31", ".", "11">> }

\* The current dates of /daybyday, one of them in a year after every known date.
DaybydayDates == {[y |-> 2024, m |-> 11, d |-> 30], [y |-> 2025, m |-> 11, d |-> 30],
                  [y |-> 2026, m |-> 11, d |-> 30]}

HeaderCells ==
    { _required_columns,
      \* the names in lower case
      [i \in 1..Len(_required_columns) |-> lower(_required_columns[i])],
      \* the names without the blanks around them
      [i \in 1..Len(_required_columns) |-> strip(_required_columns[i])],
      \* no report-day column
      <<COLUMN_TIMESTAMP, COLUMN_TEAM, COLUMN_STEPS, COLUMN_EMAIL>> }

CsvRecords ==
    { <<>>,
      << <<BaseTs, BaseDay, <<"Alpha">>, <<"100">>, <<"a", "@", "x">> >> >>,
      << <<BaseTs, BaseDay, <<"Alpha">>, <<"100">>, <<"a", "@", "x">> >>,
         <<BaseTs, BaseDay, <<"Beta">> >> >> }

CsvFiles ==
    {[fieldnames |-> << h >>, records |-> r, values |-> <<>>] :
        h \in HeaderCells, r \in CsvRecords}
    \cup {[fieldnames |-> <<>>, records |-> <<>>, values |-> <<>>]}

Worksheets ==
    {[fieldnames |-> <<>>, records |-> <<>>, values |-> v] :
        v \in SheetValues \cup
              {<< <<BaseTs>>, h, <<BaseTs, BaseDay, <<"Alpha">>, <<"100">>, <<"a", "@", "x">> >> >> :
                  h \in HeaderCells}}

GatedCommands == {"leaderboard", "today", "daybyday"}
BotCommands == GatedCommands \cup {"report"}

ViewInit ==
    /\ view_pc = "start"
    /\ answers = <<>>
    /\ service_calls = 0
    /\ returned = <<>>
    /\ \/ /\ request \in [command : {"leaderboard"}, chat_type : ChatTypes,
                          argument : {<<>>}, current_date : {NoDate}]
          /\ given \in [team_totals : TotalsDomain, daily_totals : {<<>>}]
          /\ source = NoSource
       \/ /\ request \in [command : {"today"}, chat_type : ChatTypes,
                          argument : {<<>>}, current_date : ViewDates]
          /\ given \in [team_totals : {<<>>}, daily_totals : DailyDomain]
          /\ source = NoSource
       \/ /\ request \in [command : {"daybyday"}, chat_type : ChatTypes,
                          argument : Arguments, current_date : DaybydayDates]
          /\ given \in [team_totals : {<<>>}, daily_totals : DailyDomain]
          /\ source = NoSource
       \/ /\ request \in [command : {"report"}, chat_type : ChatTypes,
                          argument : {<<>>}, current_date : ViewDates]
          /\ given \in [team_totals : ReportTotals, daily_totals : DailyDomain]
          /\ source = NoSource
       \/ /\ request = [NoRequest EXCEPT !.command = "emit_daily_report"]
          /\ given \in [team_totals : {<<>>}, daily_totals : DailyDomain]
          /\ source = NoSource
       \/ /\ request = [NoRequest EXCEPT !.command = "read_rows"]
          /\ given = NoSnapshot
          /\ source \in CsvFiles
       \/ /\ request = [NoRequest EXCEPT !.command = "fetch_sheet_rows"]
          /\ given = NoSnapshot
          /\ source \in Worksheets
    /\ EngineIdle
    /\ CacheInit

\* A gate that lets every chat in.
ensure_private_anywhere(chat_type) == TRUE

ensure_private(chat_type) == chat_type = "private"

\* "(argument or "").strip()"
ArgumentText(argument) == IF argument = None THEN <<>> ELSE strip(argument)

\* "target = datetime.strptime(argument, "%d.%m").date()" and
\* "target = target.replace(year=today.year)"
TargetOf(argument, today) ==
    [strptime_day_month(ArgumentText(argument)).val EXCEPT !.y = today.y]

\* message.answer(text) with a text of one line.
Say(text) == answers' = Append(answers, << <<text>> >>)

\* A handler from its first line to its first await: the answer that ends it,
\* or the call of service.get_snapshot().
Handle ==
    /\ view_pc = "start"
    /\ request.command \in BotCommands
    /\ IF request.command \in GatedCommands /\ ~ensure_private(request.chat_type)
       THEN Say(PrivateOnly) /\ view_pc' = "done" /\ UNCHANGED service_calls
       ELSE IF request.command = "daybyday" /\ ArgumentText(request.argument) = <<>>
       THEN Say(DaybydayUsage) /\ view_pc' = "done" /\ UNCHANGED service_calls
       ELSE IF /\ request.command = "daybyday"
               /\ ~strptime_day_month(ArgumentText(request.argument)).ok
       THEN Say(DateError) /\ view_pc' = "done" /\ UNCHANGED service_calls
       ELSE /\ service_calls' = service_calls + 1
            /\ view_pc' = "awaiting"
            /\ UNCHANGED answers
    /\ UNCHANGED <<request, given, source, returned, engine_vars, cache_vars>>

\* service.get_snapshot() returns the snapshot: the handler answers.
HandleSnapshot ==
    /\ view_pc = "awaiting"
    /\ view_pc' = "done"
    /\ IF request.command = "leaderboard"
       THEN /\ answers' = Append(answers,
                                 format_totals_table(given.team_totals, LeaderboardTitle))
            /\ UNCHANGED returned
       ELSE IF request.command = "today"
       THEN LET today == request.current_date
                latest == latest_available_day(today, given.daily_totals)
                target_day == IF latest # <<>> THEN latest[1] ELSE today
            IN  /\ returned' = latest
                /\ answers' = Append(answers,
                                     format_daily_table(target_day,
                                                        get(given.daily_totals, target_day)))
       ELSE IF request.command = "daybyday"
       THEN LET target == TargetOf(request.argument, request.current_date)
                matched_day == nearest_day_match(target, given.daily_totals)
            IN  /\ returned' = matched_day
                /\ IF matched_day = <<>> THEN Say(NothingFound)
                   ELSE answers' =
                            Append(answers,
                                   format_daily_table(matched_day[1],
                                                      get(given.daily_totals,
                                                          matched_day[1])))
       ELSE /\ returned' = compose_report(given, request.current_date).previous_day
            /\ answers' = Append(answers,
                                 compose_report(given, request.current_date).response)
    /\ UNCHANGED <<request, given, source, service_calls, engine_vars, cache_vars>>

\* service.get_snapshot() raises: the exception leaves the handler.
HandleFailure ==
    /\ view_pc = "awaiting"
    /\ view_pc' = "raised"
    /\ UNCHANGED <<request, given, source, answers, service_calls, returned,
                   engine_vars, cache_vars>>

\* emit_daily_report(daily_totals, output_path)
Emit ==
    /\ view_pc = "start"
    /\ request.command = "emit_daily_report"
    /\ returned' = emit_daily_report(given.daily_totals)
    /\ view_pc' = "done"
    /\ UNCHANGED <<request, given, source, answers, service_calls, engine_vars,
                   cache_vars>>

\* list(read_rows(csv_path)), or fetch_sheet_rows(...)
ReadSource ==
    /\ view_pc = "start"
    /\ request.command \in {"read_rows", "fetch_sheet_rows"}
    /\ returned' = IF request.command = "read_rows" THEN read_rows(source)
                   ELSE fetch_sheet_rows(source.values)
    /\ view_pc' = IF returned'.exc = "" THEN "done" ELSE "raised"
    /\ UNCHANGED <<request, given, source, answers, service_calls, engine_vars,
                   cache_vars>>

ViewNext == Handle \/ HandleSnapshot \/ HandleFailure \/ Emit \/ ReadSource

SpecView == ViewInit /\ [][ViewNext]_vars

(***************************************************************************)
(* What the claims speak of.                                               *)
(***************************************************************************)
\* parse_submission over the rows of the model.
Parsed == [row \in RowDomain |-> parse_submission(row)]

Parses(row) == Parsed[row].exc = ""

\* Whole days from the report date to the day of submission.
DelayDays(row) ==
    toordinal(date(Parsed[row].submitted_at)) - toordinal(Parsed[row].report_date)

InWindow(row) == Parses(row) /\ DelayDays(row) \in 0..2

RowKey(row) == <<Parsed[row].email, Parsed[row].report_date>>

RowEntry(row) == <<Parsed[row].submitted_at, Parsed[row].team, Parsed[row].steps>>

\* The order of timestamps, by day and then by second of the day.
AtOrBefore(a, b) ==
    \/ toordinal(date(a)) < toordinal(date(b))
    \/ toordinal(date(a)) = toordinal(date(b)) /\ SecondsOfDay(a) <= SecondsOfDay(b)

Before(a, b) == AtOrBefore(a, b) /\ ~AtOrBefore(b, a)

Collected == entries_pc \in {"aggregate", "done"}

Get0(dct, k) == IF DictHas(dct, k) THEN DictGet(dct, k) ELSE 0

RECURSIVE SetSum(_, _)
SetSum(S, f) ==
    IF S = {} THEN 0
    ELSE LET x == CHOOSE x \in S : TRUE IN f[x] + SetSum(S \ {x}, f)

EntryIdx == 1..Len(valid_entries)
EntrySteps == [i \in EntryIdx |-> valid_entries[i].val[3]]
EntryTeams == {valid_entries[i].val[2] : i \in EntryIdx}
EntryDates == {valid_entries[i].key[2] : i \in EntryIdx}
NoRepeatedKey(dct) == Cardinality(DictKeys(dct)) = Len(dct)

(***************************************************************************)
(* C1. First submission wins: once collect_valid_entries has returned, the *)
(* keys of the canonical set are exactly the (submitter, report date) keys *)
(* of the rows that parse and pass the window, and the entry of each key   *)
(* is the (submitted_at, team, steps) of a row of that key whose           *)
(* submitted_at is the least among the rows of the key, whatever the order *)
(* and the number of the rows.                                             *)
(***************************************************************************)
C1_FirstSubmissionWins ==
    Collected =>
        LET ok == {i \in 1..Len(rows) : InWindow(rows[i])} IN
        /\ DictKeys(valid_entries) = {RowKey(rows[i]) : i \in ok}
        /\ NoRepeatedKey(valid_entries)
        /\ \A k \in DictKeys(valid_entries) :
              \E i \in ok :
                 /\ RowKey(rows[i]) = k
                 /\ DictGet(valid_entries, k) = RowEntry(rows[i])
                 /\ \A j \in ok :
                       RowKey(rows[j]) = k =>
                           AtOrBefore(RowEntry(rows[i])[1], RowEntry(rows[j])[1])

\* Three rows of one key, latest first, and the earliest is the entry.
C1_Witness ==
    /\ Collected
    /\ Len(rows) = 3
    /\ \A i \in 1..3 : InWindow(rows[i]) /\ RowKey(rows[i]) = RowKey(rows[1])
    /\ Before(RowEntry(rows[3])[1], RowEntry(rows[2])[1])
    /\ Before(RowEntry(rows[2])[1], RowEntry(rows[1])[1])
    /\ RowEntry(rows[3])[2] # RowEntry(rows[1])[2]
    /\ DictGet(valid_entries, RowKey(rows[1])) = RowEntry(rows[3])

(***************************************************************************)
(* C2. Validity window: is_valid accepts a parsed row exactly when the     *)
(* day of submission is 0, 1 or 2 whole days after the report date,        *)
(* whatever the time of day; and a row outside the window contributes no   *)
(* entry and no total: the results are those of the input without it.      *)
(***************************************************************************)
OutOfWindow(row) == Parses(row) /\ DelayDays(row) \notin 0..2
NotOutOfWindow(row) == ~OutOfWindow(row)

C2_ValidityWindow ==
    /\ \A i \in 1..Len(rows) :
          Parses(rows[i]) =>
              (is_valid(Parsed[rows[i]].submitted_at, Parsed[rows[i]].report_date)
                  <=> DelayDays(rows[i]) \in 0..2)
    /\ \A i \in EntryIdx :
          toordinal(date(valid_entries[i].val[1])) - toordinal(valid_entries[i].key[2])
              \in 0..2
    /\ entries_pc = "aggregate" =>
          valid_entries = collect_valid_entries(SelectSeq(rows, NotOutOfWindow)).entries
    /\ entries_pc = "done" =>
          LET kept == collect_valid_entries(SelectSeq(rows, NotOutOfWindow)).entries IN
          /\ team_totals = aggregate_by_team(kept)
          /\ daily_totals = build_daily_totals(kept)

\* A report filed three days late, one filed for a later day and one filed two
\* days late: only the last has an entry.
C2_Witness ==
    /\ entries_pc = "done"
    /\ Len(rows) = 3
    /\ Parses(rows[1]) /\ DelayDays(rows[1]) = 3
    /\ Parses(rows[2]) /\ DelayDays(rows[2]) < 0
    /\ Parses(rows[3]) /\ DelayDays(rows[3]) = 2
    /\ Len(valid_entries) = 1
    /\ Len(team_totals) = 1

(***************************************************************************)
(* C3. Sum consistency: the total of a team is the sum over the days of    *)
(* its daily totals, an absent (day, team) cell counting 0, and the teams  *)
(* of the daily totals are the teams of the team totals.                   *)
(***************************************************************************)
DailyTeams == UNION {DictKeys(daily_totals[i].val) : i \in 1..Len(daily_totals)}

C3_SumConsistency ==
    entries_pc = "done" =>
        /\ DailyTeams = DictKeys(team_totals)
        /\ \A t \in DictKeys(team_totals) \cup DailyTeams :
              Get0(team_totals, t)
                  = SetSum(1..Len(daily_totals),
                           [i \in 1..Len(daily_totals) |-> Get0(daily_totals[i].val, t)])

\* A team with entries on two days, and a team that is absent on one of them.
C3_Witness ==
    /\ entries_pc = "done"
    /\ Len(valid_entries) = 3
    /\ Len(daily_totals) = 2
    /\ \E t \in DictKeys(team_totals) :
          /\ \A i \in 1..2 : Get0(daily_totals[i].val, t) > 0
          /\ DictGet(team_totals, t)
                 = DictGet(daily_totals[1].val, t) + DictGet(daily_totals[2].val, t)
    /\ \E t \in DictKeys(team_totals) :
          \E i \in 1..2 : ~DictHas(daily_totals[i].val, t) /\ DictGet(team_totals, t) > 0

(***************************************************************************)
(* C4. Aggregation by definition, without zero-filling: the teams of       *)
(* TeamTotals are exactly the teams of the canonical entries, each with    *)
(* the sum of the steps of its entries; the days of DailyTotals are        *)
(* exactly the report dates of the entries, and the teams of a day exactly *)
(* the teams with an entry on that day, each with the sum of those         *)
(* entries.                                                                *)
(***************************************************************************)
C4_AggregationByDefinition ==
    entries_pc = "done" =>
        /\ NoRepeatedKey(team_totals)
        /\ DictKeys(team_totals) = EntryTeams
        /\ \A t \in EntryTeams :
              DictGet(team_totals, t)
                  = SetSum({i \in EntryIdx : valid_entries[i].val[2] = t}, EntrySteps)
        /\ NoRepeatedKey(daily_totals)
        /\ DictKeys(daily_totals) = EntryDates
        /\ \A d \in EntryDates :
              /\ NoRepeatedKey(DictGet(daily_totals, d))
              /\ DictKeys(DictGet(daily_totals, d))
                    = {valid_entries[i].val[2] : i \in {j \in EntryIdx : valid_entries[j].key[2] = d}}
              /\ \A t \in DictKeys(DictGet(daily_totals, d)) :
                    DictGet(DictGet(daily_totals, d), t)
                        = SetSum({i \in EntryIdx : /\ valid_entries[i].key[2] = d
                                                   /\ valid_entries[i].val[2] = t},
                                 EntrySteps)

\* Two entries of one team on one day, and a team that is absent on another day.
C4_Witness ==
    /\ entries_pc = "done"
    /\ Len(valid_entries) = 3
    /\ Len(team_totals) = 2
    /\ Len(daily_totals) = 2
    /\ \E i \in 1..2 : Len(daily_totals[i].val) = 1
    /\ \E i, j \in EntryIdx :
          /\ i # j
          /\ valid_entries[i].val[2] = valid_entries[j].val[2]
          /\ valid_entries[i].key[2] = valid_entries[j].key[2]

(***************************************************************************)
(* C5. One bad row never aborts the batch: collect_valid_entries never     *)
(* ends with an exception, and it returns the canonical set of the input   *)
(* without its unparseable rows.                                           *)
(***************************************************************************)
C5_BadRowNeverAborts ==
    /\ entries_pc # "raised"
    /\ Collected => valid_entries = collect_valid_entries(SelectSeq(rows, Parses)).entries

(***************************************************************************)
(* Steps of a call of get_snapshot, as seen in the state.                  *)
(***************************************************************************)
Exceptions == {"HttpError", "ValidationError", "AttributeError"}

\* What a call of get_snapshot can raise.
Raised == Exceptions \cup {"SystemExit"}

\* Task t passes the test of the cache under the lock: at once when it calls,
\* or when it is woken.  now'[t] is the "now" its call read.
Decides(t) ==
    /\ pc[t] \in {"idle", "sleep", "waiting"}
    /\ pc'[t] \in {"loading", "returned", "sending"}

\* Task t goes on after its worker thread, and is not cancelled.
Resumes(t) == pc[t] = "loading" /\ pc'[t] \notin {"loading", "cancelled"}

Running == {t \in Tasks : thread[t].state = "running"}

(***************************************************************************)
(* C6. Cache hit: a call with force=false that finds a snapshot stored and *)
(* whose "now" is before the stored expiry returns that stored snapshot,   *)
(* starts no Row Source call and leaves the snapshot and the expiry as     *)
(* they are.                                                               *)
(***************************************************************************)
C6_CacheHit ==
    [][\A t \in Tasks :
          (Decides(t) /\ ~Force(t) /\ _snapshot # <<>> /\ now'[t] < _expires_at) =>
              /\ outcome'[t] = "returned"
              /\ result'[t] = _snapshot
              /\ fetches'[t] = 0
              /\ thread' = thread
              /\ next_oid' = next_oid
              /\ _snapshot' = _snapshot
              /\ _expires_at' = _expires_at]_vars

\* A handler that waited for the lock got the stored snapshot without a fetch.
C6_Witness ==
    \E t \in Handlers :
        /\ pc[t] = "returned"
        /\ fetches[t] = 0
        /\ result[t] # <<>>
        /\ result[t] = _snapshot
        /\ now[t] < clock
        /\ now[t] < _expires_at

(***************************************************************************)
(* C7. Refresh: a call with force=true, or that finds no snapshot, or      *)
(* whose "now" is at or after the stored expiry, starts the Row Source     *)
(* once; and when the load succeeds, the call stores the snapshot built    *)
(* from the fetched rows with expiry "now" + time-to-live, and returns     *)
(* what it stored.                                                         *)
(***************************************************************************)
BuiltFromSheet(snap) ==
    \E values \in SheetValues :
        /\ fetch_sheet_rows(values).exc = ""
        /\ snap.entries = collect_valid_entries(fetch_sheet_rows(values).rows).entries
        /\ snap.team_totals = aggregate_by_team(snap.entries)
        /\ snap.daily_totals = build_daily_totals(snap.entries)

C7_Refresh ==
    [][\A t \in Tasks :
          /\ (Decides(t) /\ (Force(t) \/ _snapshot = <<>> \/ now'[t] >= _expires_at)) =>
                /\ pc'[t] = "loading"
                /\ thread'[t].state = "running"
                /\ fetches'[t] = 1
                /\ Cardinality({u \in Tasks : thread'[u] # thread[u]}) = 1
          /\ (Resumes(t) /\ thread[t].state = "ok") =>
                /\ outcome'[t] = "returned"
                /\ fetches'[t] = 1
                /\ BuiltFromSheet(thread[t].snap[1])
                /\ _snapshot' = thread[t].snap
                /\ _expires_at' = now[t] + CacheTtl
                /\ result'[t] = _snapshot']_vars

\* A handler found the snapshot expired, and stored and returned a new one.
C7_Witness ==
    \E t \in Handlers :
        /\ pc[t] = "returned"
        /\ fetches[t] = 1
        /\ result[t] = _snapshot
        /\ result[t][1].oid > 1
        /\ now[t] >= CacheTtl
        /\ _expires_at = now[t] + CacheTtl

(***************************************************************************)
(* C8. Refresh mutual exclusion: in every reachable state at most one      *)
(* execution of _load_snapshot is in progress.                             *)
(***************************************************************************)
C8_RefreshMutualExclusion == Cardinality(Running) + orphans <= 1

(***************************************************************************)
(* C9. Failed refresh: when the load of a call fails, the call raises the  *)
(* failure to its caller, leaves the stored snapshot and expiry as they    *)
(* are and releases the lock; and no step other than the store of a        *)
(* successful load changes the snapshot or the expiry.                     *)
(***************************************************************************)
C9_FailedRefreshLeavesCache ==
    [][/\ \A t \in Tasks :
             (Resumes(t) /\ thread[t].state = "failed") =>
                 /\ outcome'[t] = thread[t].exc
                 /\ outcome'[t] \in Raised
                 /\ pc'[t] = AfterRaise(t)
                 /\ _snapshot' = _snapshot
                 /\ _expires_at' = _expires_at
                 /\ lock_owner' = NoTask
       /\ (_snapshot' # _snapshot \/ _expires_at' # _expires_at) =>
             \E t \in Tasks : Resumes(t) /\ thread[t].state = "ok"]_vars

\* A forced refresh failed on the schema while a snapshot was stored, and another
\* caller then got the lock.
C9_Witness ==
    /\ outcome[Scheduler] = "ValidationError"
    /\ pc[Scheduler] = "backoff"
    /\ _snapshot # <<>>
    /\ \E t \in Handlers : lock_owner = t /\ pc[t] = "loading"

(***************************************************************************)
(* C10. Cancellation safety: the step that cancels the scheduler, asleep,  *)
(* waiting for the lock or with its refresh in flight, leaves the snapshot *)
(* and the expiry as they are; from then on the scheduler neither holds    *)
(* the lock nor waits for it, and what an abandoned worker thread built is *)
(* never stored.                                                           *)
(***************************************************************************)
C10_CancellationSafety ==
    [][/\ (pc[Scheduler] # "cancelled" /\ pc'[Scheduler] = "cancelled") =>
             /\ _snapshot' = _snapshot
             /\ _expires_at' = _expires_at
       /\ pc'[Scheduler] = "cancelled" =>
             /\ lock_owner' # Scheduler
             /\ \A i \in 1..Len(lock_waiters') : lock_waiters'[i] # Scheduler
             /\ thread'[Scheduler].state = "none"
             /\ (_snapshot' # _snapshot \/ _expires_at' # _expires_at) =>
                   \E t \in Handlers : Resumes(t) /\ thread[t].state = "ok"
       /\ orphans' # orphans =>
             /\ _snapshot' = _snapshot
             /\ _expires_at' = _expires_at]_vars

\* The scheduler was cancelled with its refresh in flight, its worker thread has
\* ended since, and a handler has the lock.
C10_Witness ==
    /\ pc[Scheduler] = "cancelled"
    /\ outcome[Scheduler] = "cancelled"
    /\ fetches[Scheduler] = 1
    /\ orphans = 0
    /\ \E t \in Handlers : lock_owner = t

(***************************************************************************)
(* C11. Block until fresh: a get_snapshot() call that was made while the   *)
(* refresh of another caller was in flight does not return before that     *)
(* refresh has finished, its worker thread included, and when that refresh *)
(* stored its snapshot the call returns a snapshot built later than the    *)
(* one that was stored when the call was made.                             *)
(***************************************************************************)
Returns(t) == outcome[t] = "pending" /\ outcome'[t] = "returned"

C11_BlockUntilFresh ==
    [][\A t \in Handlers :
          (Returns(t) /\ arrival[t].fate # "none") =>
              /\ arrival[t].fate # "inflight"
              /\ arrival[t].fate = "cancelled" => orphans = 0
              /\ arrival[t].fate = "stored" => result'[t][1].oid > arrival[t].oid]_vars

(***************************************************************************)
(* C12. No partially built snapshot is visible: the stored snapshot is     *)
(* absent or a bundle whose entries come from one fetch of the worksheet   *)
(* and whose team_totals and daily_totals are the aggregation of those     *)
(* entries; the snapshot and the expiry change only in the store of the    *)
(* task that holds the lock, both assigned in that one step; and a         *)
(* snapshot a caller holds stays as it was returned, whatever is stored    *)
(* later.                                                                  *)
(***************************************************************************)
\* The totals of a snapshot are the aggregation of its own entries.
Complete(snap) ==
    \/ snap = <<>>
    \/ /\ snap[1].team_totals = aggregate_by_team(snap[1].entries)
       /\ snap[1].daily_totals = build_daily_totals(snap[1].entries)

C12_NoPartialSnapshot ==
    [][/\ Complete(_snapshot')
       /\ (_snapshot' # _snapshot \/ _expires_at' # _expires_at) =>
             \E t \in Tasks :
                 /\ lock_owner = t
                 /\ pc[t] = "loading"
                 /\ thread[t].state = "ok"
                 /\ BuiltFromSheet(thread[t].snap[1])
                 /\ _snapshot' = thread[t].snap
                 /\ _snapshot' # _snapshot
                 /\ _expires_at' = now[t] + CacheTtl
       /\ \A t \in Tasks :
             /\ Complete(result'[t])
             /\ (result[t] # <<>> /\ pc'[t] = pc[t]) => result'[t] = result[t]]_vars

\* A handler still holds the snapshot it was given while a later one is stored.
C12_Witness ==
    \E t \in Handlers :
        /\ pc[t] = "returned"
        /\ result[t] # <<>>
        /\ _snapshot # <<>>
        /\ result[t][1].oid < _snapshot[1].oid
        /\ Complete(result[t])
        /\ Complete(_snapshot)

(***************************************************************************)
(* C14. Source failures are reported: when the get_snapshot call of a      *)
(* command handler or of the scheduled report raised a source error, the   *)
(* requester has sent a message for that request by the time it is done    *)
(* with it, and the stored snapshot and expiry are as they were.           *)
(***************************************************************************)
\* Task t is done with a request whose get_snapshot raised.
FailedRequestEnds(t) ==
    /\ outcome[t] \in Exceptions
    /\ pc[t] = AfterRaise(t)
    /\ pc'[t] \notin {pc[t], "cancelled"}

C14_SourceFailureReported ==
    [][\A t \in Tasks :
          FailedRequestEnds(t) =>
              /\ sent'[t] >= 1
              /\ _snapshot' = _snapshot
              /\ _expires_at' = _expires_at]_vars

(***************************************************************************)
(* C13. Schema check: a Row Source (read_rows, fetch_sheet_rows) raises    *)
(* ValidationError exactly when the header of its source does not hold     *)
(* all five required columns, compared by normalized name; and when it     *)
(* raises, it has delivered no row.                                        *)
(***************************************************************************)
HeaderComplete(cells) ==
    normalized_required \subseteq {_normalize(cells[i]) : i \in 1..Len(cells)}

\* The source has a header with the five columns: the first line of the file,
\* or a row of the worksheet.
SourceHasHeader ==
    IF request.command = "read_rows"
    THEN source.fieldnames # <<>> /\ HeaderComplete(source.fieldnames[1])
    ELSE \E i \in 1..Len(source.values) : HeaderComplete(source.values[i])

C13_SchemaCheck ==
    (request.command \in {"read_rows", "fetch_sheet_rows"} /\ view_pc \in {"done", "raised"}) =>
        /\ (returned.exc = "ValidationError") <=> ~SourceHasHeader
        /\ returned.exc # "" => returned.rows = <<>>

(***************************************************************************)
(* C15. Listing order: the text of format_totals_table and of              *)
(* format_daily_table is the title (or the date) line followed by one      *)
(* numbered line per team of the mapping, each team once, numbered from 1, *)
(* in non-increasing order of steps, teams of equal steps in the order of  *)
(* the mapping; for an empty or absent mapping it is the title (or date)   *)
(* line and the no-data line.                                              *)
(***************************************************************************)
\* The team and the steps a numbered line shows.
RowTeam(line) == SubSeq(line, 3, Len(line) - 2)
RowSteps(line) == Numerals[line[Len(line)]].v

Position(totals, team) == CHOOSE k \in 1..Len(totals) : totals[k].key = team

\* The lines after the first list the mapping, with sep before the steps.
ListsMapping(text, totals, sep) ==
    /\ Len(text) = Len(totals) + 1
    /\ \A i \in 1..Len(totals) :
          /\ Len(text[i + 1]) >= 5
          /\ text[i + 1][1] = str(i)
          /\ text[i + 1][2] = ". "
          /\ text[i + 1][Len(text[i + 1]) - 1] = sep
          /\ text[i + 1][Len(text[i + 1])] = str(RowSteps(text[i + 1]))
    /\ \A k \in 1..Len(totals) :
          Cardinality({i \in 1..Len(totals) :
                          /\ RowTeam(text[i + 1]) = totals[k].key
                          /\ RowSteps(text[i + 1]) = totals[k].val}) = 1
    /\ \A i, j \in 1..Len(totals) :
          i < j =>
              /\ RowSteps(text[i + 1]) >= RowSteps(text[j + 1])
              /\ RowSteps(text[i + 1]) = RowSteps(text[j + 1]) =>
                    Position(totals, RowTeam(text[i + 1])) <
                        Position(totals, RowTeam(text[j + 1]))

\* The handler got the snapshot and answered.
Served(command) ==
    /\ request.command = command
    /\ view_pc = "done"
    /\ service_calls = 1

\* The day /today shows.
ShownDay == IF returned # <<>> THEN returned[1] ELSE request.current_date

C15_ListingOrder ==
    /\ Served("leaderboard") =>
          /\ Len(answers) = 1
          /\ answers[1][1] = <<LeaderboardTitle>>
          /\ IF given.team_totals = <<>>
             THEN answers[1] = << <<LeaderboardTitle>>, <<NoDataForQuery>> >>
             ELSE ListsMapping(answers[1], given.team_totals, ": ")
    /\ Served("today") =>
          /\ Len(answers) = 1
          /\ answers[1][1] = strftime(ShownDay)
          /\ IF ~DictHas(given.daily_totals, ShownDay)
             THEN answers[1] = << strftime(ShownDay), <<NoDataForDay>> >>
             ELSE ListsMapping(answers[1], DictGet(given.daily_totals, ShownDay), ": +")

\* Three teams were listed, the first two of the mapping with equal steps and
\* the third with more.
C15_Witness ==
    /\ Served("leaderboard")
    /\ Len(given.team_totals) = 3
    /\ given.team_totals[1].val = given.team_totals[2].val
    /\ given.team_totals[3].val > given.team_totals[1].val
    /\ RowTeam(answers[1][2]) = given.team_totals[3].key
    /\ RowTeam(answers[1][3]) = given.team_totals[1].key
    /\ RowTeam(answers[1][4]) = given.team_totals[2].key

(***************************************************************************)
(* C16. Nearest-day lookup: nearest_day_match returns the target when it   *)
(* is a key of the daily totals; otherwise the earliest key with the month *)
(* and the day of the month of the target, in any year; otherwise None;    *)
(* and a date it returns is a key of the daily totals.                     *)
(***************************************************************************)
\* The keys with the month and the day of the month of the target of /daybyday.
SameDayKeys ==
    {k \in DictKeys(given.daily_totals) :
        /\ k.m = TargetOf(request.argument, request.current_date).m
        /\ k.d = TargetOf(request.argument, request.current_date).d}

TargetIsKey ==
    TargetOf(request.argument, request.current_date) \in DictKeys(given.daily_totals)

C16_NearestDayLookup ==
    Served("daybyday") =>
        /\ TargetIsKey =>
              returned = <<TargetOf(request.argument, request.current_date)>>
        /\ (~TargetIsKey /\ SameDayKeys # {}) =>
              /\ returned # <<>>
              /\ returned[1] \in SameDayKeys
              /\ \A k \in SameDayKeys : toordinal(returned[1]) <= toordinal(k)
        /\ (~TargetIsKey /\ SameDayKeys = {}) => returned = <<>>
        /\ returned # <<>> => returned[1] \in DictKeys(given.daily_totals)

\* The target is no key, two keys of other years have its month and day, the
\* later of them first in the mapping, and the earlier one was returned.
C16_Witness ==
    /\ Served("daybyday")
    /\ ~TargetIsKey
    /\ Cardinality(SameDayKeys) = 2
    /\ given.daily_totals[1].key.y > given.daily_totals[2].key.y
    /\ returned = <<given.daily_totals[2].key>>

(***************************************************************************)
(* C17. Combined report day: compose_report takes as its daily section the *)
(* greatest key of the daily totals strictly less than the reference date, *)
(* never the reference date or a later one; with no earlier key it returns *)
(* None and puts the previous-day-unavailable line after the totals        *)
(* listing.                                                                *)
(***************************************************************************)
\* The keys of the daily totals before the reference date of /report.
EarlierKeys ==
    {k \in DictKeys(given.daily_totals) :
        toordinal(k) < toordinal(request.current_date)}

\* The lines of the totals listing at the head of the report.
TotalsLines == IF given.team_totals = <<>> THEN 2 ELSE Len(given.team_totals) + 1

C17_ReportDay ==
    Served("report") =>
        /\ Len(answers) = 1
        /\ Len(answers[1]) >= TotalsLines + 3
        /\ IF given.team_totals = <<>>
           THEN SubSeq(answers[1], 1, TotalsLines) =
                    << <<LeaderboardTitle>>, <<NoDataForQuery>> >>
           ELSE /\ answers[1][1] = <<LeaderboardTitle>>
                /\ ListsMapping(SubSeq(answers[1], 1, TotalsLines),
                                given.team_totals, ": ")
        /\ answers[1][TotalsLines + 1] = <<>>
        /\ answers[1][TotalsLines + 2] = <<GrowthHeading>>
        /\ EarlierKeys # {} =>
              /\ returned # <<>>
              /\ returned[1] \in EarlierKeys
              /\ \A k \in EarlierKeys : toordinal(k) <= toordinal(returned[1])
              /\ answers[1][TotalsLines + 3] = strftime(returned[1])
              /\ ListsMapping(SubSeq(answers[1], TotalsLines + 3, Len(answers[1])),
                              DictGet(given.daily_totals, returned[1]), ": +")
        /\ EarlierKeys = {} =>
              /\ returned = <<>>
              /\ Len(answers[1]) = TotalsLines + 3
              /\ answers[1][TotalsLines + 3] = <<PreviousDayUnavailable>>

\* The reference date is a key, the day before it is none, and the report
\* took the one earlier key.
C17_Witness ==
    /\ Served("report")
    /\ DictHas(given.daily_totals, request.current_date)
    /\ ~DictHas(given.daily_totals, yesterday(request.current_date))
    /\ EarlierKeys # {}
    /\ returned # <<>>
    /\ returned[1] \in EarlierKeys
    /\ given.team_totals # <<>>

(***************************************************************************)
(* C18. /today day selection: in a private chat handle_today answers with  *)
(* the daily listing of the greatest key of the daily totals that is not   *)
(* after the current date, the current date itself when it is a key; with  *)
(* no key on or before the current date it answers with the label of the   *)
(* current date and the no-data line; it sends exactly one answer.         *)
(***************************************************************************)
\* The keys of the daily totals not after the current date of /today.
KeysUpToToday ==
    {k \in DictKeys(given.daily_totals) :
        toordinal(k) <= toordinal(request.current_date)}

C19_PrivateChatGating ==
    /\ (request.command \in GatedCommands /\ request.chat_type # "private") =>
          /\ service_calls = 0
          /\ view_pc \in {"start", "done"}
          /\ view_pc = "start" => answers = <<>>
          /\ view_pc = "done" => answers = << << <<PrivateOnly>> >> >>
    /\ request.command = "report" =>
          /\ view_pc = "start" => service_calls = 0 /\ answers = <<>>
          /\ view_pc # "start" => service_calls = 1
          /\ view_pc = "done" =>
                /\ Len(answers) = 1
                /\ answers[1] =
                       compose_report(given, request.current_date).response
                /\ answers[1] # << <<PrivateOnly>> >>

\* A gated command of a chat that is not private ended with the rejection.
C19_Witness ==
    /\ request.command \in GatedCommands
    /\ request.chat_type # "private"
    /\ view_pc = "done"
    /\ answers = << << <<PrivateOnly>> >> >>
    /\ service_calls = 0

(***************************************************************************)
(* C20. Exported day-by-team table: emit_daily_report writes the header    *)
(* "date" followed by every team of any date, sorted and each once, then   *)
(* one row per date of the daily totals in ascending order of the dates,   *)
(* each row with one value per team of the header: the steps of the team   *)
(* on that date, or 0 where the team is absent on it.                      *)
(***************************************************************************)
Emitted == request.command = "emit_daily_report" /\ view_pc = "done"

\* The teams of any date of the daily totals.
TeamsOfAnyDate ==
    UNION {DictKeys(given.daily_totals[i].val) : i \in 1..Len(given.daily_totals)}

\* The date of the daily totals a written row is labelled with.
RowDate(row) == CHOOSE k \in DictKeys(given.daily_totals) : strftime(k) = row[1]

\* What the table has to hold for a team on the date of a row.
Due(row, team) ==
    IF DictHas(DictGet(given.daily_totals, RowDate(row)), team)
    THEN DictGet(DictGet(given.daily_totals, RowDate(row)), team)
    ELSE 0

C20_ExportedTable ==
    Emitted =>
        /\ returned.header[1] = <<"date">>
        /\ Len(returned.header) = Cardinality(TeamsOfAnyDate) + 1
        /\ \A team \in TeamsOfAnyDate :
              Cardinality({c \in 2..Len(returned.header) :
                              returned.header[c] = team}) = 1
        /\ \A c, e \in 2..Len(returned.header) :
              c < e => StrOrder[returned.header[c]] < StrOrder[returned.header[e]]
        /\ Len(returned.rows) = Cardinality(DictKeys(given.daily_totals))
        /\ \A i \in 1..Len(returned.rows) :
              /\ \E k \in DictKeys(given.daily_totals) :
                    strftime(k) = returned.rows[i][1]
              /\ Len(returned.rows[i]) = Len(returned.header)
              /\ \A c \in 2..Len(returned.header) :
                    /\ returned.rows[i][c] \in DOMAIN Numerals
                    /\ Numerals[returned.rows[i][c]].v =
                           Due(returned.rows[i], returned.header[c])
        /\ \A i, j \in 1..Len(returned.rows) :
              i < j => toordinal(RowDate(returned.rows[i])) <
                           toordinal(RowDate(returned.rows[j]))

\* Two dates, the later one first in the mapping, with three teams between
\* them, and a 0 written for a team absent on the earlier date.
C20_Witness ==
    /\ Emitted
    /\ Len(given.daily_totals) = 2
    /\ toordinal(given.daily_totals[1].key) > toordinal(given.daily_totals[2].key)
    /\ Len(returned.header) = 4
    /\ Len(returned.rows) = 2
    /\ returned.rows[1][1] = strftime(given.daily_totals[2].key)
    /\ \E c \in 2..4 :
          /\ ~DictHas(given.daily_totals[2].val, returned.header[c])
          /\ returned.rows[1][c] = "0"

(***************************************************************************)
(* C21. Re-running and copies of rows: a second run of                     *)
(* collect_valid_entries, aggregate_by_team and build_daily_totals on the  *)
(* same rows gives the results of the first; and a copy of a row of the    *)
(* input, inserted after that row, or anywhere when no other row of its    *)
(* key that passes the window has its submitted_at, leaves the canonical   *)
(* entries, the team totals and the daily totals as they are.              *)
(***************************************************************************)
\* seq with x put at position p.
InsertAt(seq, p, x) == SubSeq(seq, 1, p - 1) \o <<x>> \o SubSeq(seq, p, Len(seq))

\* dict.__eq__: the same keys with the same values, in whatever order.
SameDict(a, b) == {a[i] : i \in 1..Len(a)} = {b[i] : i \in 1..Len(b)}

SameDaily(a, b) ==
    /\ DictKeys(a) = DictKeys(b)
    /\ \A d \in DictKeys(a) : SameDict(DictGet(a, d), DictGet(b, d))

\* The results of the run are those of the rows with a copy of row i at p.
CopyChangesNothing(i, p) ==
    LET again == collect_valid_entries(InsertAt(rows, p, rows[i])).entries
    IN  /\ SameDict(again, valid_entries)
        /\ SameDict(aggregate_by_team(again), team_totals)
        /\ SameDaily(build_daily_totals(again), daily_totals)

\* Another row of the key of row i passes the window with the same submitted_at.
HasRival(i) ==
    /\ InWindow(rows[i])
    /\ \E j \in 1..Len(rows) :
          /\ rows[j] # rows[i]
          /\ InWindow(rows[j])
          /\ RowKey(rows[j]) = RowKey(rows[i])
          /\ RowEntry(rows[j])[1] = RowEntry(rows[i])[1]

RunAgainSame ==
    /\ collect_valid_entries(rows).exc = ""
    /\ collect_valid_entries(rows).entries = valid_entries
    /\ aggregate_by_team(valid_entries) = team_totals
    /\ build_daily_totals(valid_entries) = daily_totals

C21_RerunAndCopies ==
    entries_pc = "done" =>
        /\ RunAgainSame
        /\ \A i \in 1..Len(rows) : \A p \in 1..(Len(rows) + 1) :
              (p > i \/ ~HasRival(i)) => CopyChangesNothing(i, p)

\* Two rows of one key with one submitted_at and different teams, and a copy
\* of the second put after it changes nothing.
C21_Witness ==
    /\ entries_pc = "done"
    /\ Len(rows) >= 2
    /\ HasRival(2)
    /\ RowKey(rows[1]) = RowKey(rows[2])
    /\ RowEntry(rows[1])[1] = RowEntry(rows[2])[1]
    /\ RowEntry(rows[1])[2] # RowEntry(rows[2])[2]
    /\ DictGet(valid_entries, RowKey(rows[1])) = RowEntry(rows[1])
    /\ CopyChangesNothing(2, 3)

\* C21 as stated: a copy at any position, whatever the other rows.
C21_CopyAnywhere ==
    entries_pc = "done" =>
        /\ RunAgainSame
        /\ \A i \in 1..Len(rows) : \A p \in 1..(Len(rows) + 1) :
              CopyChangesNothing(i, p)

(***************************************************************************)
(* C22. Submitter identity is normalized, team is not: two rows with the   *)
(* same report date whose identity cells differ only in letter case or in  *)
(* the blanks around them have the same canonical key and give one entry   *)
(* for that submitter and day; the team of an entry is the team cell of    *)
(* its row with the blanks around it removed and nothing else changed, so  *)
(* teams that differ in letter case have totals of their own.              *)
(***************************************************************************)
FoldLetter(tok) == IF tok \in DOMAIN LowerTable THEN LowerTable[tok] ELSE tok

\* Two texts that differ at most in letter case and in the blanks around them.
SameButCaseAndBlanks(a, b) ==
    /\ Len(strip(a)) = Len(strip(b))
    /\ \A n \in 1..Len(strip(a)) : FoldLetter(strip(a)[n]) = FoldLetter(strip(b)[n])

SameSubmitterAndDay(r, q) ==
    /\ Parses(r) /\ Parses(q)
    /\ SameButCaseAndBlanks(r[COLUMN_EMAIL], q[COLUMN_EMAIL])
    /\ Parsed[r].report_date = Parsed[q].report_date

C22_IdentityNormalizedTeamNot ==
    /\ \A i, j \in 1..Len(rows) :
          SameSubmitterAndDay(rows[i], rows[j]) => RowKey(rows[i]) = RowKey(rows[j])
    /\ Collected =>
          /\ \A i \in 1..Len(rows) :
                InWindow(rows[i]) =>
                    Cardinality({k \in EntryIdx :
                        /\ SameButCaseAndBlanks(valid_entries[k].key[1],
                                                rows[i][COLUMN_EMAIL])
                        /\ valid_entries[k].key[2] = Parsed[rows[i]].report_date}) = 1
          /\ \A k \in EntryIdx :
                \E i \in 1..Len(rows) :
                    /\ InWindow(rows[i])
                    /\ RowKey(rows[i]) = valid_entries[k].key
                    /\ valid_entries[k].val[2] = strip(rows[i][COLUMN_TEAM])
    /\ entries_pc = "done" =>
          /\ DictKeys(team_totals) = EntryTeams
          /\ \A t \in EntryTeams :
                DictGet(team_totals, t) =
                    SetSum({k \in EntryIdx : valid_entries[k].val[2] = t}, EntrySteps)

\* Two rows of one submitter and day written in different letter case gave one
\* entry, and two teams that differ in letter case have a total each.
C22_Witness ==
    /\ entries_pc = "done"
    /\ Len(rows) = 3
    /\ rows[1][COLUMN_EMAIL] # rows[2][COLUMN_EMAIL]
    /\ SameSubmitterAndDay(rows[1], rows[2])
    /\ InWindow(rows[1]) /\ InWindow(rows[2])
    /\ Len(valid_entries) = 2
    /\ \E t, u \in DictKeys(team_totals) :
          t # u /\ SameButCaseAndBlanks(t, u)

(***************************************************************************)
(* C23. A cached snapshot is served only while unexpired: when a call with *)
(* force=false returns the stored snapshot without a Row Source call, the  *)
(* clock at that decision, made under the lock, also after a wait behind   *)
(* other callers, is before the stored expiry; and a call whose decision   *)
(* is made at or after the expiry refreshes.                               *)
(***************************************************************************)
C23_ServedOnlyUnexpired ==
    [][\A t \in Handlers :
          Decides(t) =>
              /\ (pc'[t] = "returned" /\ fetches'[t] = 0) => clock < _expires_at
              /\ clock >= _expires_at => pc'[t] = "loading"]_vars

(***************************************************************************)
(* C24. Cancellation aborts the in-flight refresh: once the caller whose   *)
(* refresh is in flight is cancelled, the worker thread of that refresh    *)
(* does not keep running, so no Row Source call of a later caller runs     *)
(* while the one of the cancelled refresh still does.                      *)
(***************************************************************************)
C24_CancellationAbortsRefresh ==
    /\ pc[Scheduler] = "cancelled" => orphans = 0
    /\ Running # {} => orphans = 0

(***************************************************************************)
(* C25. The prior snapshot stays usable after a failed refresh: a refresh  *)
(* that fails leaves the stored snapshot and its expiry as they are, and a *)
(* call with force=false that was made with a snapshot stored and goes on  *)
(* after the refresh it found in flight has failed returns the stored      *)
(* snapshot, without a Row Source call, when its "now" is before the       *)
(* stored expiry.                                                          *)
(***************************************************************************)
\* Handler t, which called with a snapshot stored, goes on after the refresh it
\* found in flight has failed.
GoesOnAfterFailure(t) ==
    Decides(t) /\ arrival[t].fate = "failed" /\ arrival[t].oid > 0

ServedFromCache(t) ==
    /\ _snapshot # <<>>
    /\ pc'[t] = "returned"
    /\ outcome'[t] = "returned"
    /\ result'[t] = _snapshot
    /\ fetches'[t] = 0

C25_PriorSnapshotStaysUsable ==
    [][/\ \A t \in Tasks :
             (Resumes(t) /\ thread[t].state = "failed") =>
                 _snapshot' = _snapshot /\ _expires_at' = _expires_at
       /\ \A t \in Handlers :
             (GoesOnAfterFailure(t) /\ now[t] < _expires_at) => ServedFromCache(t)]_vars

\* A handler that waited behind a refresh that failed got the snapshot that was
\* stored when it called.
C25_Witness ==
    \E t \in Handlers :
        /\ pc[t] = "returned"
        /\ arrival[t].fate = "failed"
        /\ arrival[t].oid > 0
        /\ fetches[t] = 0
        /\ result[t] = _snapshot
        /\ result[t][1].oid = arrival[t].oid

\* C25 as stated: the prior snapshot is returned whatever its expiry.
C25_UsableWhateverExpiry ==
    [][\A t \in Handlers : GoesOnAfterFailure(t) => ServedFromCache(t)]_vars

(***************************************************************************)
(* C26. Source-order tie-break: the rows are processed one by one in the   *)
(* order of the input, and after each of them the entry of a key is that   *)
(* of the first, in that order, of the processed rows of the key that      *)
(* parse, pass the window and have the least submitted_at; so of rows of   *)
(* one key with one submitted_at and different teams or steps the first    *)
(* gives the entry.                                                        *)
(***************************************************************************)
\* The rows processed so far that pass the window and have key k.
ProcessedOfKey(k) ==
    {i \in 1..(row_idx - 1) : InWindow(rows[i]) /\ RowKey(rows[i]) = k}

\* Those of them with the least submitted_at.
EarliestOfKey(k) ==
    {i \in ProcessedOfKey(k) :
        \A j \in ProcessedOfKey(k) :
            AtOrBefore(RowEntry(rows[i])[1], RowEntry(rows[j])[1])}

FirstOf(S) == CHOOSE i \in S : \A j \in S : i <= j

C26_SourceOrderTieBreak ==
    /\ row_idx \in 1..(Len(rows) + 1)
    /\ Collected => row_idx = Len(rows) + 1
    /\ DictKeys(valid_entries) =
           {RowKey(rows[i]) : i \in {j \in 1..(row_idx - 1) : InWindow(rows[j])}}
    /\ \A k \in DictKeys(valid_entries) :
          DictGet(valid_entries, k) = RowEntry(rows[FirstOf(EarliestOfKey(k))])

\* Two rows of one key with one submitted_at, the teams and the steps different,
\* and then an earlier row of another submitter: the first row gave the entry.
C26_Witness ==
    /\ Collected
    /\ Len(rows) = 3
    /\ InWindow(rows[1]) /\ InWindow(rows[2]) /\ InWindow(rows[3])
    /\ RowKey(rows[1]) = RowKey(rows[2])
    /\ RowEntry(rows[1])[1] = RowEntry(rows[2])[1]
    /\ RowEntry(rows[1])[2] # RowEntry(rows[2])[2]
    /\ RowEntry(rows[1])[3] > RowEntry(rows[2])[3]
    /\ RowKey(rows[3]) # RowKey(rows[1])
    /\ DictGet(valid_entries, RowKey(rows[1])) = RowEntry(rows[1])
    /\ Len(valid_entries) = 2

(***************************************************************************)
(* C27. Keys are independent: a row processed by collect_valid_entries     *)
(* changes at most the entry of its own (submitter, report date) key and   *)
(* leaves every other entry, and the order of the keys, as they are; a row *)
(* that is skipped, unparseable or outside the window, changes nothing; so *)
(* a submitter can have entries under different teams on different days.   *)
(***************************************************************************)
C27_KeysIndependent ==
    [][/\ valid_entries' # valid_entries => row_idx' # row_idx
       /\ row_idx' # row_idx =>
             /\ row_idx' = row_idx + 1
             /\ rows' = rows
             /\ \A k \in DictKeys(valid_entries) :
                   /\ DictHas(valid_entries', k)
                   /\ k # RowKey(rows[row_idx]) =>
                         DictGet(valid_entries', k) = DictGet(valid_entries, k)
             /\ DictKeys(valid_entries') \subseteq
                    DictKeys(valid_entries) \cup {RowKey(rows[row_idx])}
             /\ \A i \in 1..Len(valid_entries) : valid_entries'[i].key = valid_entries[i].key
             /\ ~InWindow(rows[row_idx]) => valid_entries' = valid_entries]_vars

\* One submitter has entries for two days under different teams, and a row
\* outside the window came last.
C27_Witness ==
    /\ Collected
    /\ Len(rows) = 3
    /\ Len(valid_entries) = 2
    /\ valid_entries[1].key[1] = valid_entries[2].key[1]
    /\ valid_entries[1].key[2] # valid_entries[2].key[2]
    /\ valid_entries[1].val[2] # valid_entries[2].val[2]
    /\ OutOfWindow(rows[3])

(***************************************************************************)
(* C28. Sheet rows reach the parser: for a worksheet whose header          *)
(* fetch_sheet_rows accepts, every returned row has its cells under the    *)
(* five COLUMN_* names parse_submission looks up, so that a row of five    *)
(* well-formed cells inside the window parses and has an entry in the      *)
(* canonical set built from the returned rows.                             *)
(***************************************************************************)
SheetFetched == request.command = "fetch_sheet_rows" /\ view_pc = "done"

\* The raw row of the worksheet behind the i-th returned row.
RawOf(i) == source.values[header_row_idx(source.values) + i]

\* Five cells that parse as a submission inside the window.
WellFormedCells(raw) ==
    /\ Len(raw) = 5
    /\ strptime_timestamp(strip(raw[1])).ok
    /\ strptime_date(strip(raw[2])).ok
    /\ strip(raw[3]) # <<>>
    /\ int(strip(raw[4])).ok
    /\ strip(raw[5]) # <<>>
    /\ is_valid(strptime_timestamp(strip(raw[1])).val, strptime_date(strip(raw[2])).val)

C28_SheetRowsReachParser ==
    SheetFetched =>
        \A i \in 1..Len(returned.rows) :
            /\ {REQUIRED_COLUMNS[c] : c \in 1..Len(REQUIRED_COLUMNS)}
                   \subseteq DOMAIN returned.rows[i]
            /\ (WellFormedCells(RawOf(i)) /\ source.values[header_row_idx(source.values)] = SheetHeader) =>
                  /\ parse_submission(returned.rows[i]).exc = ""
                  /\ collect_valid_entries(returned.rows).entries # <<>>
(***************************************************************************)
(* C29. Scheduler survives failures: the loop of daily_report_loop ends    *)
(* only by its cancellation, never by a failure of get_snapshot or of the  *)
(* sending; it asks for a forced refresh only when its target is due, and  *)
(* whenever it goes back to sleep, after a send or after a failure, its    *)
(* new target is later than the target it attempted and than the clock, so *)
(* that a target is refreshed and sent at most once.                       *)
(***************************************************************************)
\* The scheduler leaves "await asyncio.sleep(wait_seconds)" for its refresh.
SchedAttempts == pc[Scheduler] = "sleep" /\ pc'[Scheduler] \notin {"sleep", "cancelled"}

\* The scheduler is back at the top of its loop.
SchedLoopsAgain == pc[Scheduler] # "sleep" /\ pc'[Scheduler] = "sleep"

C29_SchedulerSurvivesFailures ==
    [][/\ pc'[Scheduler] # "exited"
       /\ (pc[Scheduler] # "cancelled" /\ pc'[Scheduler] = "cancelled") =>
              UNCHANGED <<_snapshot, _expires_at, sched_target, sent>>
       /\ SchedAttempts => clock >= sched_target
       /\ SchedLoopsAgain =>
              /\ pc[Scheduler] \in {"sending", "backoff"}
              /\ sched_target' > sched_target
              /\ sched_target' > clock'
       /\ sent'[Scheduler] > sent[Scheduler] =>
              /\ pc[Scheduler] = "sending"
              /\ pc'[Scheduler] = "sleep"
              /\ sent'[Scheduler] = 1]_vars

(***************************************************************************)
(* C30. Expiry never moves backwards: no step of any interleaving of calls *)
(* of get_snapshot, forced or not, that succeed, fail or are cancelled,    *)
(* lowers the stored expiry; the snapshot and the expiry change only       *)
(* together, in the step in which a refresh stores what it loaded, and the *)
(* expiry is then the "now" of that very call plus the TTL; and an expiry  *)
(* is stored exactly when a snapshot is.                                   *)
(***************************************************************************)
C30_ExpiryNeverMovesBackwards ==
    [][/\ _expires_at' >= _expires_at
       /\ (_snapshot' # _snapshot \/ _expires_at' # _expires_at) =>
             \E t \in Tasks :
                 /\ Resumes(t)
                 /\ thread[t].state = "ok"
                 /\ lock_owner = t
                 /\ _snapshot' = thread[t].snap
                 /\ _snapshot' # _snapshot
                 /\ _expires_at' = now[t] + CacheTtl
       /\ (_snapshot = <<>>) <=> (_expires_at = DatetimeMin)]_vars

\* A handler called while a refresh was in flight, waited until that refresh had
\* stored, found its snapshot expired and stored a later expiry itself.
C30_Witness ==
    \E t \in Handlers :
        /\ pc[t] = "returned"
        /\ fetches[t] = 1
        /\ arrival[t].fate = "stored"
        /\ result[t] = _snapshot
        /\ _expires_at = now[t] + CacheTtl
        /\ _expires_at > CacheTtl
=============================================================================
